---- MODULE Spec2Model ----
(***************************************************************************)
(* A model of the Forth Salon dialect compiler and interpreter of          *)
(* src/samples/forthsalon/forth.c: the lexer and parser                    *)
(* (forth_parse_string, found_word and the compile-time builtins), the     *)
(* inliner, the peephole optimizer, the stack-effect checker and the       *)
(* threaded interpreter (forth_run and the callbacks it dispatches).       *)
(*                                                                         *)
(* Conventions.  A code block is a sequence of slots; slot i of the C      *)
(* array is element i+1 of the sequence, and every index kept in the state *)
(* (jump stack entries, branch immediates, the instruction pointer) is the *)
(* C index, counted from 0.  The source text is a sequence of bytes, each  *)
(* written as a one-character string.  A double is an exact rational       *)
(* [n, d] with d = 0 for the infinities and NaN: the model is faithful     *)
(* for values a double represents exactly; the sign of zero is not kept.   *)
(* forth_code_append is taken not to fail and to keep slot addresses       *)
(* (the growable array is not part of this source file).                   *)
(***************************************************************************)
EXTENDS Integers, Sequences, FiniteSets, TLC

VARIABLES
    input,          \* the source text handed to forth_parse_string
    code,           \* forth_parse_string's pointer code, an offset in input
    words,          \* ctx->words restricted to user words: name -> code block
    defining_word,  \* ctx->defining_word: a user word's name, or NULL
    j_stack,        \* ctx->j_stack[0 .. j - j_stack - 1]
    phase,          \* "parse", "failed", "ready", "running", "halted", and
                    \* "aborted" (lwan_status_critical), "ub" (an access
                    \* outside an array), "unmodelled" (a body not evaluated)
    error,          \* the diagnostic of the step that failed, "" if none
    inlined,        \* main's block as inline_calls left it (history)
    inst,           \* the interpreter's instruction pointer, a slot index
    d_stack,        \* D stack contents below the stack pointer
    r_stack,        \* R stack contents below the stack pointer
    vars            \* the struct forth_vars of the current run

vars_ == <<input, code, words, defining_word, j_stack, phase, error, inlined,
           inst, d_stack, r_stack, vars>>

-----------------------------------------------------------------------------
(* Doubles *)

Abs(i) == IF i < 0 THEN -i ELSE i

Sgn(i) == IF i > 0 THEN 1 ELSE IF i < 0 THEN -1 ELSE 0

RECURSIVE Gcd(_, _)
Gcd(a, b) == IF b = 0 THEN a ELSE Gcd(b, a % b)

Norm(n, d) ==
    IF d = 0 THEN [n |-> Sgn(n), d |-> 0]
    ELSE LET g == Gcd(Abs(n), Abs(d))
         IN  [n |-> Sgn(d) * (n \div g), d |-> Abs(d) \div g]

Double(i) == [n |-> i, d |-> 1]

\* negative infinity, a wrong value for __builtin_inf()
NegInf == [n |-> -1, d |-> 0]

Inf == [n |-> 1, d |-> 0]

NaN == [n |-> 0, d |-> 0]

IsNaN(a) == a.d = 0 /\ a.n = 0

IsInf(a) == a.d = 0 /\ a.n # 0

IsZero(a) == a.d # 0 /\ a.n = 0

DNeg(a) == [n |-> -a.n, d |-> a.d]

DAdd(a, b) ==
    IF IsNaN(a) \/ IsNaN(b) THEN NaN
    ELSE IF IsInf(a) THEN (IF IsInf(b) /\ a.n # b.n THEN NaN ELSE a)
    ELSE IF IsInf(b) THEN b
    ELSE Norm(a.n * b.d + b.n * a.d, a.d * b.d)

DSub(a, b) == DAdd(a, DNeg(b))

DMul(a, b) ==
    IF IsNaN(a) \/ IsNaN(b) THEN NaN
    ELSE IF IsInf(a) \/ IsInf(b)
         THEN [n |-> Sgn(a.n) * Sgn(b.n), d |-> 0]
    ELSE Norm(a.n * b.n, a.d * b.d)

DDiv(a, b) ==
    IF IsNaN(a) \/ IsNaN(b) THEN NaN
    ELSE IF IsInf(a) THEN (IF IsInf(b) THEN NaN
                           ELSE [n |-> a.n * (IF b.n < 0 THEN -1 ELSE 1), d |-> 0])
    ELSE IF IsInf(b) THEN Double(0)
    ELSE Norm(a.n * b.d, a.d * b.n)

\* a == b on doubles: false when either is NaN
DEq(a, b) == ~IsNaN(a) /\ ~IsNaN(b) /\ a = b

\* a < b on doubles: false when either is NaN
DLt(a, b) ==
    /\ ~IsNaN(a)
    /\ ~IsNaN(b)
    /\ IF a.d = 0 /\ b.d = 0 THEN a.n < b.n ELSE a.n * b.d < b.n * a.d

DLe(a, b) == DLt(a, b) \/ DEq(a, b)

Bool(p) == IF p THEN Double(1) ELSE Double(0)

-----------------------------------------------------------------------------
(* Instruction slots: union forth_inst, told apart by position in C and by *)
(* the field k here.                                                       *)

Callback(name) == [k |-> "callback", v |-> name]

Number(x) == [k |-> "number", v |-> x]

Pc(p) == [k |-> "pc", v |-> p]

CodeRef(w) == [k |-> "code", v |-> w]

IsCallback(slot, name) == slot.k = "callback" /\ slot.v = name

\* forth_code_get_elem(code, i)
Elem(block, i) == block[i + 1]

-----------------------------------------------------------------------------
(* The builtin registry: the BUILTIN and BUILTIN_R definitions with their  *)
(* declared <<name, d_pushes, d_pops, r_pushes, r_pops>>.                  *)

forth_builtin ==
    << <<"x", 1, 0, 0, 0>>, <<"y", 1, 0, 0, 0>>, <<"t", 1, 0, 0, 0>>,
       <<"dt", 1, 0, 0, 0>>, <<"mx", 1, 0, 0, 0>>, <<"my", 1, 0, 0, 0>>,
       <<"button", 1, 1, 0, 0>>, <<"buttons", 1, 0, 0, 0>>,
       <<"audio", 0, 1, 0, 0>>, <<"sample", 3, 2, 0, 0>>,
       <<"bwsample", 1, 2, 0, 0>>,
       <<"push", 0, 1, 1, 0>>, <<"pop", 1, 0, 0, 1>>,
       <<">r", 0, 1, 1, 0>>, <<"r>", 1, 0, 0, 1>>, <<"r@", 1, 0, 1, 1>>,
       <<"@", 1, 1, 0, 0>>, <<"!", 0, 2, 0, 0>>,
       <<"dup", 2, 1, 0, 0>>, <<" dupdup", 4, 1, 0, 0>>,
       <<"over", 3, 2, 0, 0>>, <<"2dup", 4, 2, 0, 0>>,
       <<"z+", 2, 4, 0, 0>>, <<"z*", 2, 4, 0, 0>>,
       <<"drop", 0, 1, 0, 0>>, <<"swap", 2, 2, 0, 0>>,
       <<"rot", 3, 3, 0, 0>>, <<"-rot", 3, 3, 0, 0>>,
       <<" -rotswap", 3, 3, 0, 0>>,
       <<"=", 1, 2, 0, 0>>, <<"<>", 1, 2, 0, 0>>, <<">", 1, 2, 0, 0>>,
       <<"<", 1, 2, 0, 0>>, <<">=", 1, 2, 0, 0>>, <<" >=swap", 2, 3, 0, 0>>,
       <<"<=", 1, 2, 0, 0>>,
       <<"+", 1, 2, 0, 0>>, <<" fma", 1, 3, 0, 0>>, <<"*", 1, 2, 0, 0>>,
       <<"-", 1, 2, 0, 0>>, <<"/", 1, 2, 0, 0>>, <<"mod", 1, 2, 0, 0>>,
       <<"pow", 1, 2, 0, 0>>, <<"**", 1, 2, 0, 0>>, <<"atan2", 1, 2, 0, 0>>,
       <<"and", 1, 2, 0, 0>>, <<"or", 1, 2, 0, 0>>, <<"not", 1, 1, 0, 0>>,
       <<"min", 1, 2, 0, 0>>, <<"max", 1, 2, 0, 0>>, <<"negate", 1, 1, 0, 0>>,
       <<"sin", 1, 1, 0, 0>>, <<"cos", 1, 1, 0, 0>>, <<"tan", 1, 1, 0, 0>>,
       <<"log", 1, 1, 0, 0>>, <<"exp", 1, 1, 0, 0>>, <<"sqrt", 1, 1, 0, 0>>,
       <<"floor", 1, 1, 0, 0>>, <<"ceil", 1, 1, 0, 0>>, <<"abs", 1, 1, 0, 0>>,
       <<"pi", 1, 0, 0, 0>>, <<"random", 1, 0, 0, 0>>,
       <<" mult2", 1, 1, 0, 0>>, <<" pow2", 1, 1, 0, 0>>,
       <<" div2", 1, 1, 0, 0>>, <<" multpi", 1, 1, 0, 0>>,
       <<" multhalfpi", 1, 1, 0, 0>> >>

\* the names registered in the forth_builtin section
BuiltinNames == {forth_builtin[i][1] : i \in DOMAIN forth_builtin}

\* the names registered in the forth_compiler_builtin section
forth_compiler_builtin == {"\\", "(", ":", ";", "if", "else", "then"}

\* the descriptor of a runtime builtin, as a record
Builtin(name) ==
    LET b == forth_builtin[CHOOSE i \in DOMAIN forth_builtin :
                               forth_builtin[i][1] = name]
    IN  [name |-> b[1], d_pushes |-> b[2], d_pops |-> b[3],
         r_pushes |-> b[4], r_pops |-> b[5]]

\* find_builtin_by_callback applied to a slot: the builtin's name, or NULL
NULL == "(null) "

find_builtin_by_callback(slot) ==
    IF slot.k = "callback"
       /\ slot.v \in (BuiltinNames \cup forth_compiler_builtin)
    THEN slot.v
    ELSE NULL

-----------------------------------------------------------------------------
(* Loops.  A loop of the C code is a state with a field done and one turn  *)
(* of it, Turn(loop, env, st), where loop names the function that holds    *)
(* the loop and env is what the loop only reads.  The loop is run by       *)
(* doubling, which keeps the evaluation shallow however long it runs.      *)

RECURSIVE Turn(_, _, _)

RECURSIVE Turns(_, _, _, _)
\* at most 2^k turns of a loop from state st, stopping once it is done
Turns(loop, env, st, k) ==
    IF st.done THEN st
    ELSE IF k = 0 THEN Turn(loop, env, st)
    ELSE Turns(loop, env, Turns(loop, env, st, k - 1), k - 1)

RECURSIVE Loop(_, _, _, _)
\* the state in which the loop that starts in st is done
Loop(loop, env, st, k) ==
    IF st.done THEN st
    ELSE Loop(loop, env, Turns(loop, env, st, k), k + 1)

-----------------------------------------------------------------------------
(* Bytes and the lexer *)

NUL == "NUL"

\* a byte that is neither printable nor white space (0x01)
CtrlA == "^A"

Digits == <<"0", "1", "2", "3", "4", "5", "6", "7", "8", "9">>

Printable ==
    {" ",
     "!", "\"", "#", "$", "%", "&", "'", "(", ")", "*", "+", ",", "-", ".", "/", "0",
     "1", "2", "3", "4", "5", "6", "7", "8", "9", ":", ";", "<", "=", ">", "?", "@",
     "A", "B", "C", "D", "E", "F", "G", "H", "I", "J", "K", "L", "M", "N", "O", "P",
     "Q", "R", "S", "T", "U", "V", "W", "X", "Y", "Z", "[", "\\", "]", "^", "_",
     "a", "b", "c", "d", "e", "f", "g", "h", "i", "j", "k", "l", "m", "n", "o", "p",
     "q", "r", "s", "t", "u", "v", "w", "x", "y", "z", "{", "|", "}", "~"}

isspace(c) == c \in {" ", "\t", "\n", "\f", "\r"}

\* (the grave accent 0x60 cannot be written in a string here and is left out)
isprint(c) == c \in Printable

\* the byte at offset i of a NUL-terminated text
At(text, i) == IF i < Len(text) THEN text[i + 1] ELSE NUL

\* the bytes of a text as one string
RECURSIVE Str(_)
Str(cs) ==
    IF cs = <<>> THEN ""
    ELSE IF Len(cs) = 1 THEN cs[1]
    ELSE Str(SubSeq(cs, 1, Len(cs) \div 2))
             \o Str(SubSeq(cs, Len(cs) \div 2 + 1, Len(cs)))

\* while (isspace(*code)) code++; the first offset from i on that holds no
\* white space
SkipSpace(text, i) ==
    IF i >= Len(text) THEN i
    ELSE CHOOSE j \in i..Len(text) :
             /\ ~isspace(At(text, j))
             /\ \A m \in i..(j - 1) : isspace(At(text, m))

\* the inner while (true) loop of forth_parse_string: the offset one past the
\* word that starts at i, or -1 when a byte of it is not printable
ScanWord(text, i) ==
    IF i >= Len(text) THEN i
    ELSE LET Ends(n) == At(text, n) = NUL \/ isspace(At(text, n))
             j == CHOOSE h \in i..Len(text) :
                      /\ Ends(h) \/ ~isprint(At(text, h))
                      /\ \A m \in i..(h - 1) :
                             ~Ends(m) /\ isprint(At(text, m))
         IN  IF Ends(j) THEN j ELSE -1

\* strchr(text + i, c): the offset of the first c at or after i, or -1
strchr(text, i, c) ==
    IF \E j \in i..(Len(text) - 1) : text[j + 1] = c
    THEN CHOOSE j \in i..(Len(text) - 1) :
             /\ text[j + 1] = c
             /\ \A m \in i..(j - 1) : text[m + 1] # c
    ELSE -1

DigitValue(c) == (CHOOSE i \in DOMAIN Digits : Digits[i] = c) - 1

IsDigit(c) == \E i \in DOMAIN Digits : Digits[i] = c

RECURSIVE Pow10(_)
Pow10(k) == IF k = 0 THEN 1 ELSE 10 * Pow10(k - 1)

RECURSIVE DecimalValue(_)
DecimalValue(cs) ==
    IF cs = <<>> THEN 0
    ELSE 10 * DecimalValue(SubSeq(cs, 1, Len(cs) - 1)) + DigitValue(cs[Len(cs)])

\* parse_number: strtod on a whole word, for the decimal forms
\* [+-]digits[.digits]; <<FALSE, _>> when strtod stops before the end.
\* (Exponents, hexadecimal forms, "inf" and "nan" are not modelled: no
\* source of this model holds such a word.)
parse_number(word) ==
    LET signed == word # <<>> /\ Head(word) \in {"+", "-"}
        body   == IF signed THEN Tail(word) ELSE word
        dots   == {i \in DOMAIN body : body[i] = "."}
        dot    == IF dots = {} THEN Len(body) + 1
                  ELSE CHOOSE i \in dots : TRUE
        int    == SubSeq(body, 1, dot - 1)
        frac   == SubSeq(body, dot + 1, Len(body))
        ok     == /\ Cardinality(dots) <= 1
                  /\ Len(int) + Len(frac) >= 1
                  /\ \A i \in DOMAIN int : IsDigit(int[i])
                  /\ \A i \in DOMAIN frac : IsDigit(frac[i])
        mag    == Norm(DecimalValue(int \o frac), Pow10(Len(frac)))
    IN  IF ok
        THEN <<TRUE, IF signed /\ Head(word) = "-" THEN DNeg(mag) ELSE mag>>
        ELSE <<FALSE, NaN>>

-----------------------------------------------------------------------------
(* The word map *)

\* the name of the main word created by forth_new
main == " "

\* a lookup that misses the runtime builtins (a faulty variant of hash_find)
hash_find_no_builtin(W, name) ==
    IF name \in DOMAIN W THEN "user"
    ELSE IF name \in forth_compiler_builtin THEN "compiler"
    ELSE NULL

\* hash_find(ctx->words, name), as the kind of word found
hash_find(W, name) ==
    IF name \in DOMAIN W THEN "user"
    ELSE IF name \in forth_compiler_builtin THEN "compiler"
    ELSE IF name \in BuiltinNames THEN "builtin"
    ELSE NULL

MAX_WORD_LEN == 64

D_STACK_LEN == 32

R_STACK_LEN == 32

J_STACK_LEN == 63

JUMP_STACK_LEN == 64

RECURSION_LIMIT == 100

\* a test that never sees an open definition (a faulty variant of
\* is_inside_word_def)
never_inside_word_def(dw) == FALSE

\* is_inside_word_def
is_inside_word_def(dw) == dw = NULL \/ dw # main

\* EMIT(arg): append one slot to a block
EMIT(block, slot) == Append(block, slot)

-----------------------------------------------------------------------------
(* Inliner.  A result is [ret, code, status]: ret is the C return value,   *)
(* code the block built so far, status "ok", or "ub" when the C code went  *)
(* outside an array.                                                       *)

\* an offset that stops one slot short (a faulty variant of ElsePatch)
ElsePatchShort(len, idx) == len + idx - 3

\* the offset written into the immediate of a jump_if when its else is met:
\* forth_code_len(new_code) + forth_code_get_elem_index(new_code, if_inst) - 2
ElsePatch(len, idx) == len + idx - 2

\* the offset written into an immediate when its then (op_nop) is met:
\* forth_code_len(new_code) - forth_code_get_elem_index(new_code, else_inst) + 1
ThenPatch(len, idx) == len - idx + 1

\* what one copied instruction does to the block and to the local jump
\* stack (the body shared by inline_calls_code and peephole):
\* new is the block with the opcode appended, imm the immediate that
\* follows the opcode in the original block (used when has_imm)
CopyInst(opcode, imm, new, js) ==
    IF IsCallback(opcode, "op_jump_if") THEN
        \* JS_PUSH(forth_code_len(new_code))
        IF Len(js) > JUMP_STACK_LEN
        THEN [ret |-> FALSE, code |-> new, js |-> js, status |-> "ok"]
        ELSE [ret |-> TRUE, code |-> Append(new, imm),
              js |-> Append(js, Len(new)),
              status |-> IF Len(js) = JUMP_STACK_LEN THEN "ub" ELSE "ok"]
    ELSE IF IsCallback(opcode, "op_jump") THEN
        \* JS_POP(), patch, JS_PUSH(forth_code_len(new_code))
        IF Len(js) = 0
        THEN [ret |-> FALSE, code |-> new, js |-> js, status |-> "ok"]
        ELSE LET idx == js[Len(js)]
                 patched == [new EXCEPT ![idx + 1] = Pc(ElsePatch(Len(new), idx))]
             IN  [ret |-> TRUE, code |-> Append(patched, imm),
                  js |-> Append(SubSeq(js, 1, Len(js) - 1), Len(new)),
                  status |-> "ok"]
    ELSE IF IsCallback(opcode, "op_nop") THEN
        IF Len(js) = 0
        THEN [ret |-> FALSE, code |-> new, js |-> js, status |-> "ok"]
        ELSE LET idx == js[Len(js)]
             IN  [ret |-> TRUE,
                  code |-> [new EXCEPT ![idx + 1] = Pc(ThenPatch(Len(new), idx))],
                  js |-> SubSeq(js, 1, Len(js) - 1), status |-> "ok"]
    ELSE IF IsCallback(opcode, "op_number") THEN
        [ret |-> TRUE, code |-> Append(new, imm), js |-> js, status |-> "ok"]
    ELSE [ret |-> TRUE, code |-> new, js |-> js, status |-> "ok"]

\* whether an opcode is followed by an immediate slot (has_imm)
has_imm(opcode) ==
    \/ IsCallback(opcode, "op_jump_if")
    \/ IsCallback(opcode, "op_jump")
    \/ IsCallback(opcode, "op_number")

\* one turn of the LWAN_ARRAY_FOREACH loop of inline_calls_code.  The calls
\* of inline_calls_code that are under way are the frames of st, the
\* innermost last: each holds its block, the slot it is at, its jump stack
\* and its nested count.
InlineLoop(W, st) ==
    LET n == Len(st.frames)
        f == st.frames[n]
    IN
    IF f.i >= Len(f.orig) THEN
        IF n = 1
        THEN [st EXCEPT !.done = TRUE, !.ret = TRUE, !.status = f.status]
        ELSE [st EXCEPT !.frames =
                 [SubSeq(st.frames, 1, n - 1) EXCEPT ![n - 1].status =
                      IF f.status = "ok" THEN @ ELSE f.status]]
    ELSE
      LET opcode == Elem(f.orig, f.i)
          imm    == IF f.i + 1 < Len(f.orig) THEN Elem(f.orig, f.i + 1)
                    ELSE Pc(0)
      IN
      IF IsCallback(opcode, "op_eval_code") THEN
          IF f.nested - 1 = 0
          THEN [st EXCEPT !.done = TRUE, !.ret = FALSE, !.status = "ok",
                          !.error = "Recursion limit reached while inlining"]
          ELSE [st EXCEPT !.frames =
                   Append([st.frames EXCEPT ![n].i = f.i + 2],
                          [orig |-> W[imm.v], i |-> 0, js |-> <<>>,
                           nested |-> f.nested - 1, status |-> "ok"])]
      ELSE
          LET c == CopyInst(opcode, imm, Append(st.code, opcode), f.js)
          IN  IF ~c.ret
              THEN [st EXCEPT !.done = TRUE, !.ret = FALSE, !.code = c.code,
                              !.status = f.status]
              ELSE [st EXCEPT
                      !.code = c.code,
                      !.frames[n] =
                          [f EXCEPT !.i = IF has_imm(opcode) THEN f.i + 2
                                          ELSE f.i + 1,
                                    !.js = c.js,
                                    !.status = IF c.status = "ok" THEN @
                                               ELSE c.status]]

inline_calls_code(W, orig_code, new_code, nested) ==
    IF nested = 0
    THEN [ret |-> FALSE, code |-> new_code, status |-> "ok",
          error |-> "Recursion limit reached while inlining"]
    ELSE Loop("inline_calls_code", W,
                  [frames |-> <<[orig |-> orig_code, i |-> 0, js |-> <<>>,
                                 nested |-> nested, status |-> "ok"]>>,
                   code |-> new_code, ret |-> TRUE, status |-> "ok",
                   error |-> "", done |-> FALSE], 0)

\* an inliner that hands main's block back as it is (a faulty variant of
\* inline_calls: the calls stay)
inline_calls_skipped(W) ==
    [ret |-> TRUE, status |-> "ok", error |-> "", code |-> W[main]]

\* a variant of inline_calls that starts with a nested count one higher
inline_calls_deeper(W) ==
    LET r == inline_calls_code(W, W[main], <<>>, RECURSION_LIMIT + 1)
    IN  [ret |-> r.ret, status |-> r.status, error |-> r.error,
         code |-> IF r.ret THEN r.code ELSE W[main]]

\* inline_calls: on success main's block is replaced by the new block
inline_calls(W) ==
    LET r == inline_calls_code(W, W[main], <<>>, RECURSION_LIMIT)
    IN  [ret |-> r.ret, status |-> r.status, error |-> r.error,
         code |-> IF r.ret THEN r.code ELSE W[main]]

-----------------------------------------------------------------------------
(* Peephole optimizer *)

\* the block with its last slot replaced by the callback of builtin name
ReplaceLast(block, name) == [block EXCEPT ![Len(block)] = Callback(name)]

\* a variant of peephole_1 that rewrites nothing
peephole_1_idle(block, b) == <<FALSE, block>>

\* peephole_1(ctx, code, b): <<rewritten, block>>
peephole_1(block, b) ==
    LET last == block[Len(block)]
    IN  IF b = "+" THEN
            IF IsCallback(last, "*") THEN <<TRUE, ReplaceLast(block, " fma")>>
            ELSE <<FALSE, block>>
        ELSE IF b = "*" THEN
            IF find_builtin_by_callback(last) = "pi"
            THEN <<TRUE, ReplaceLast(block, " multpi")>>
            ELSE <<FALSE, block>>
        ELSE IF b = "dup" THEN
            IF IsCallback(last, "dup") THEN <<TRUE, ReplaceLast(block, " dupdup")>>
            ELSE <<FALSE, block>>
        ELSE IF b = "swap" THEN
            IF IsCallback(last, "-rot")
            THEN <<TRUE, ReplaceLast(block, " -rotswap")>>
            ELSE IF IsCallback(last, ">=")
            THEN <<TRUE, ReplaceLast(block, " >=swap")>>
            ELSE <<FALSE, block>>
        ELSE IF b = " div2" THEN
            IF IsCallback(last, " multpi")
            THEN <<TRUE, ReplaceLast(block, " multhalfpi")>>
            ELSE <<FALSE, block>>
        ELSE <<FALSE, block>>

\* last[0].number == 2.0
IsTwo(slot) == slot.k = "number" /\ DEq(slot.v, Double(2))

\* the rewrite of (op_number v)(op_number 2.0) into (op_number v)(fused):
\* last[-1].callback = fused; code->base.elements--
FuseTwo(block, name) ==
    Append(SubSeq(block, 1, Len(block) - 2), Callback(name))

\* the fold of (op_number a)(op_number b) into (op_number v):
\* last[-2].number = v; code->base.elements -= 2
Fold(block, v) == Append(SubSeq(block, 1, Len(block) - 3), Number(v))

\* a variant of peephole_n that rewrites nothing
peephole_n_idle(block, b) == <<FALSE, block>>

\* peephole_n(ctx, code, b): <<rewritten, block>>.  The second branch for
\* "/" in the C if-else chain is never taken: the first one catches the name.
peephole_n(block, b) ==
    LET n       == Len(block)
        last(k) == block[n + k]
        two_numbers ==
            /\ n >= 4
            /\ IsCallback(last(-1), "op_number")
            /\ IsCallback(last(-3), "op_number")
            /\ last(-2).k = "number"
            /\ last(0).k = "number"
        two_at_tail == IsCallback(last(-1), "op_number") /\ IsTwo(last(0))
    IN  IF b = "/" THEN
            IF two_at_tail THEN <<TRUE, FuseTwo(block, " div2")>>
            ELSE <<FALSE, block>>
        ELSE IF b = "+" THEN
            IF two_numbers
            THEN <<TRUE, Fold(block, DAdd(last(-2).v, last(0).v))>>
            ELSE <<FALSE, block>>
        ELSE IF b = "-" THEN
            IF two_numbers
            THEN <<TRUE, Fold(block, DSub(last(-2).v, last(0).v))>>
            ELSE <<FALSE, block>>
        ELSE IF b = "*" THEN
            IF two_at_tail THEN <<TRUE, FuseTwo(block, " mult2")>>
            ELSE IF two_numbers
            THEN <<TRUE, Fold(block, DMul(last(-2).v, last(0).v))>>
            ELSE <<FALSE, block>>
        ELSE IF b = "**" THEN
            IF two_at_tail THEN <<TRUE, FuseTwo(block, " pow2")>>
            ELSE <<FALSE, block>>
        ELSE IF b = " mult2" THEN
            IF IsCallback(last(-1), "op_number") /\ last(0).k = "number"
            THEN <<TRUE, [block EXCEPT ![n] = Number(DMul(last(0).v, Double(2)))]>>
            ELSE <<FALSE, block>>
        ELSE <<FALSE, block>>

\* the rewrite tried for one incoming instruction: peephole_1 when the new
\* block holds more than one slot, then peephole_n when it holds more than two
TryPeephole(block, opcode) ==
    LET b == find_builtin_by_callback(opcode)
    IN  IF b = NULL THEN <<FALSE, block>>
        ELSE IF Len(block) > 1 /\ peephole_1(block, b)[1]
        THEN peephole_1(block, b)
        ELSE IF Len(block) > 2 THEN peephole_n(block, b)
        ELSE <<FALSE, block>>

\* the LWAN_ARRAY_FOREACH loop of peephole from slot i of orig_code on.
\* A JS_PUSH or JS_POP that fails returns false at once and leaves the
\* partly built block as the word's code.
\* The loop state st holds the slot i, the new block, the jump stack js and
\* the modified flag; PeepholeLoop makes one turn.
PeepholeLoop(orig_code, st) ==
    IF st.i >= Len(orig_code)
    THEN [st EXCEPT !.done = TRUE, !.ret = st.modified, !.complete = TRUE]
    ELSE
      LET opcode == Elem(orig_code, st.i)
          imm    == IF st.i + 1 < Len(orig_code) THEN Elem(orig_code, st.i + 1)
                    ELSE Pc(0)
          p      == TryPeephole(st.code, opcode)
      IN
      IF p[1]
      THEN [st EXCEPT !.i = @ + 1, !.code = p[2], !.modified = TRUE]
      ELSE
          LET c == CopyInst(opcode, imm, Append(st.code, opcode), st.js)
          IN  IF ~c.ret
              THEN [st EXCEPT !.done = TRUE, !.ret = FALSE, !.code = c.code,
                              !.complete = FALSE]
              ELSE [st EXCEPT
                      !.i = IF has_imm(opcode) THEN @ + 2 ELSE @ + 1,
                      !.code = c.code, !.js = c.js,
                      !.status = IF c.status = "ok" THEN @ ELSE c.status]

\* peephole(ctx) on the block of the defining word
peephole(block) ==
    Loop("peephole", block,
         [i |-> 0, code |-> <<>>, js |-> <<>>, modified |-> FALSE,
          status |-> "ok", ret |-> FALSE, complete |-> FALSE,
          done |-> FALSE], 0)

\* the second call of peephole, made when the first one returned true
SecondPass(first) ==
    IF first.ret
    THEN [passes |-> 2]
         @@ [peephole(first.code) EXCEPT
                !.status = IF first.status = "ok" THEN @ ELSE first.status]
    ELSE [passes |-> 1] @@ first

\* if (peephole(ctx)) peephole(ctx);
RunPeephole(block) == SecondPass(peephole(block))

-----------------------------------------------------------------------------
(* Stack-effect checker *)

\* the LWAN_ARRAY_FOREACH loop of check_stack_effects from slot i on, with
\* items_in_d_stack = d and items_in_r_stack = r.  The result is "" when
\* the block is accepted, else the diagnostic; "critical: ..." stands for
\* lwan_status_critical, which ends the process.
\* The loop state st holds i, d, r and the result; CheckLoop makes one turn.
CheckLoop(block, st) ==
    LET i == st.i
        d == st.d
        r == st.r
        Return(msg) == [st EXCEPT !.done = TRUE, !.msg = msg]
        Next(i2, d2, r2) == [st EXCEPT !.i = i2, !.d = d2, !.r = r2]
    IN
    IF i >= Len(block) THEN
        IF d >= D_STACK_LEN
        THEN Return("Program would cause a stack overflow in the D stack")
        ELSE IF r >= R_STACK_LEN
        THEN Return("Program would cause a stack overflow in the R stack")
        ELSE IF d < 0 THEN Return("Program would underflow the D stack")
        ELSE IF r < 0 THEN Return("Program would underflow the R stack")
        ELSE Return("")
    ELSE
      LET opcode == Elem(block, i)
      IN
      IF IsCallback(opcode, "op_number") THEN Next(i + 2, d + 1, r)
      ELSE IF IsCallback(opcode, "op_jump_if") THEN
          IF d = 0 THEN Return("Word if requires 1 item(s) in the D stack")
          ELSE Next(i + 2, d - 1, r)
      ELSE IF IsCallback(opcode, "op_jump") THEN Next(i + 2, d, r)
      ELSE IF IsCallback(opcode, "op_halt") THEN Next(i + 1, d, r)
      ELSE IF IsCallback(opcode, "op_nop") THEN Next(i + 1, d, r)
      ELSE IF IsCallback(opcode, "op_eval_code")
      THEN Return("critical: eval_code after inlining")
      ELSE IF find_builtin_by_callback(opcode) = NULL
      THEN Return("critical: Can't find builtin word by callback")
      ELSE
          LET b  == Builtin(opcode.v)
              d2 == d - b.d_pops + b.d_pushes
              r2 == r - b.r_pops + b.r_pushes
          IN  IF d < b.d_pops THEN Return("Word requires item(s) in the D stack")
              ELSE IF r < b.r_pops
              THEN Return("Word requires item(s) in the R stack")
              ELSE IF d2 >= D_STACK_LEN
              THEN Return("Program would cause a stack overflow in the D stack")
              ELSE IF r2 >= R_STACK_LEN
              THEN Return("Program would cause a stack overflow in the R stack")
              ELSE Next(i + 1, d2, r2)

check_stack_effects(block) ==
    Loop("check_stack_effects", block,
         [i |-> 0, d |-> 0, r |-> 0, msg |-> "", done |-> FALSE], 0).msg

-----------------------------------------------------------------------------
(* Interpreter.  A machine state is [inst, d, r, vars, status, error]:     *)
(* inst the slot dispatched next, d and r the stack contents below the two *)
(* stack pointers, status "running", "halted", "aborted" (the process was  *)
(* ended by lwan_status_critical) or "ub" (the C code read or wrote        *)
(* outside a stack or dispatched a slot that holds no callback).           *)

DFloor(a) == IF a.d = 0 THEN a ELSE Double(a.n \div a.d)

DCeil(a) == IF a.d = 0 THEN a ELSE Double(-((-a.n) \div a.d))

DAbs(a) == [n |-> Abs(a.n), d |-> a.d]

\* fmin and fmax: the other operand when one is NaN
\* pow(a, e) for a that is not negative and e one of 0, 1, 2, 3
RECURSIVE DPow(_, _)
DPow(a, e) == IF e = 0 THEN Double(1) ELSE DMul(a, DPow(a, e - 1))

DMin(a, b) == IF IsNaN(a) THEN b ELSE IF IsNaN(b) THEN a
              ELSE IF DLt(b, a) THEN b ELSE a

DMax(a, b) == IF IsNaN(a) THEN b ELSE IF IsNaN(b) THEN a
              ELSE IF DLt(a, b) THEN b ELSE a

\* the length of vars->memory, N_ELEMENTS(vars->memory): the array is
\* declared in forth.h; the specification calls it CAP, a fixed small power
\* of two
CAP == 16

\* whether (uint32_t)a is defined: the integral part of a is representable
Convertible(a) == a.d # 0 /\ (a.n >= 0 \/ -a.n < a.d)

\* (uint32_t)a % N_ELEMENTS(vars->memory), for a convertible a
MemSlot(a) == IF a.n >= 0 THEN (a.n \div a.d) % CAP ELSE 0

\* the number of POP_D()/DROP_D() a builtin's body executes, which for the
\* bodies that work on *(d_stack - 1) in place is the one slot they touch;
\* -1 for a body this model does not evaluate
BodyPops(name) ==
    CASE name \in {"x", "y", "t", "dt", "mx", "my", "buttons", "pop", "r>",
                   "r@", "pi", "random"} -> 0
      [] name \in {"@", "button", "audio", "push", ">r", "dup", " dupdup", "drop",
                   "not", "negate", "abs", "floor", "ceil", " mult2", " pow2",
                   " div2", "sin", "cos", "tan", "log", "exp", "sqrt",
                   " multpi", " multhalfpi"} -> 1
      [] name \in {"!", "sample", "bwsample", "over", "2dup", "swap", "=", "<>",
                   ">", "<", ">=", "<=", "+", "*", "-", "/", "**", "and",
                   "or", "min", "max", "mod", "pow", "atan2"} -> 2
      [] name \in {"rot", "-rot", " -rotswap", " >=swap", " fma"} -> 3
      [] name \in {"z+", "z*"} -> 4
      [] OTHER -> -1

\* the builtins whose body calls libm, drand48 or uses M_PI: each pushes one
\* value (or rewrites the top in place).  The value is not computed: the
\* step moves the stack as the body does, puts a NaN in the place of the
\* result and ends the run as "unmodelled".
Unvalued == {"sin", "cos", "tan", "log", "exp", "sqrt", "pi", "random", "mod",
             "pow", "atan2", " multpi", " multhalfpi"}

\* the number of POP_R() a builtin's body executes
BodyPopsR(name) == IF name \in {"pop", "r>", "r@"} THEN 1 ELSE 0

\* a body that pushes nothing (a faulty variant of BodyPushes)
BodyPushes_none(name, v, rv, vr) == <<>>

\* the values a builtin's body pushes on D, in push order, given the popped
\* values v (v[1] popped first), the popped R value rv and the vars record
BodyPushes(name, v, rv, vr) ==
    CASE name = "x" -> <<vr.x>>
      [] name = "y" -> <<vr.y>>
      [] name = "t" -> <<vr.t>>
      [] name = "dt" -> <<vr.dt>>
      [] name \in {"mx", "my", "buttons", "button", "bwsample"} -> <<Double(0)>>
      [] name = "audio" -> <<>>
      [] name = "@" -> <<vr.memory[MemSlot(v[1])]>>
      [] name = "!" -> <<>>
      [] name = "sample" -> <<Double(0), Double(0), Double(0)>>
      [] name \in {"push", ">r", "drop"} -> <<>>
      [] name \in {"pop", "r>", "r@"} -> <<rv>>
      [] name = "dup" -> <<v[1], v[1]>>
      [] name = " dupdup" -> <<v[1], v[1], v[1], v[1]>>
      [] name = "over" -> <<v[2], v[1], v[2]>>
      [] name = "2dup" -> <<v[2], v[1], v[2], v[1]>>
      [] name = "z+" -> <<DAdd(v[2], v[4]), DAdd(v[1], v[3])>>
      [] name = "z*" -> <<DSub(DMul(v[4], v[2]), DMul(v[3], v[1])),
                          DAdd(DMul(v[4], v[1]), DMul(v[3], v[2]))>>
      [] name = "swap" -> <<v[1], v[2]>>
      [] name = "rot" -> <<v[2], v[1], v[3]>>
      [] name = "-rot" -> <<v[1], v[3], v[2]>>
      [] name = " -rotswap" -> <<v[1], v[2], v[3]>>
      [] name = "=" -> <<Bool(DEq(v[1], v[2]))>>
      [] name = "<>" -> <<Bool(~DEq(v[1], v[2]))>>
      [] name = ">" -> <<Bool(DLt(v[2], v[1]))>>
      [] name = "<" -> <<Bool(DLt(v[1], v[2]))>>
      [] name = ">=" -> <<Bool(DLe(v[2], v[1]))>>
      [] name = " >=swap" -> <<Bool(DLe(v[2], v[1])), v[3]>>
      [] name = "<=" -> <<Bool(DLe(v[1], v[2]))>>
      [] name = "+" -> <<DAdd(v[1], v[2])>>
      [] name = " fma" -> <<DAdd(DMul(v[1], v[2]), v[3])>>
      [] name = "*" -> <<DMul(v[1], v[2])>>
      [] name = "-" -> <<DSub(v[2], v[1])>>
      [] name = "/" -> <<IF DEq(v[1], Double(0)) THEN Inf ELSE DDiv(v[2], v[1])>>
      [] name = "**" -> <<DPow(DAbs(v[2]), v[1].n)>>
      [] name = "and" -> <<Bool(~DEq(v[2], Double(0)) /\ ~DEq(v[1], Double(0)))>>
      [] name = "or" -> <<Bool(~DEq(v[2], Double(0)) \/ ~DEq(v[1], Double(0)))>>
      [] name = "not" -> <<Bool(DEq(v[1], Double(0)))>>
      [] name = "min" -> <<DMin(v[1], v[2])>>
      [] name = "max" -> <<DMax(v[1], v[2])>>
      [] name = "negate" -> <<DNeg(v[1])>>
      [] name = "abs" -> <<DAbs(v[1])>>
      [] name = "floor" -> <<DFloor(v[1])>>
      [] name = "ceil" -> <<DCeil(v[1])>>
      [] name = " mult2" -> <<DMul(v[1], Double(2))>>
      [] name = " pow2" -> <<DMul(v[1], v[1])>>
      [] name = " div2" -> <<DDiv(v[1], Double(2))>>

\* the values a builtin's body pushes on R, given the popped D values v and
\* the popped R value rv
BodyPushesR(name, v, rv) ==
    IF name \in {"push", ">r"} THEN <<v[1]>>
    ELSE IF name = "r@" THEN <<rv>>
    ELSE <<>>

\* a variant of the store in which the index is popped before the value
BodyVars_swapped(name, v, vr) ==
    IF name = "!" /\ Convertible(v[1])
    THEN [vr EXCEPT !.memory[MemSlot(v[1])] = v[2]]
    ELSE vr

\* what a builtin's body makes of the vars record, given the popped values
BodyVars(name, v, vr) ==
    IF name = "!" THEN [vr EXCEPT !.memory[MemSlot(v[2])] = v[1]] ELSE vr

\* the k values on top of a stack, the top one first
Popped(stack, k) == [i \in 1..k |-> stack[Len(stack) + 1 - i]]

Fault(m, status, why) == [m EXCEPT !.status = status, !.error = why]

\* a variant in which every body is empty
ExecBuiltin_empty(name, m) == [m EXCEPT !.inst = m.inst + 1]

\* a BUILTIN body followed by NEXT()
ExecBuiltin(name, m) ==
    LET k  == BodyPops(name)
        kr == BodyPopsR(name)
    IN  IF k < 0 THEN Fault(m, "unmodelled", name)
        ELSE IF Len(m.d) < k THEN Fault(m, "ub", "D stack underflow")
        ELSE IF Len(m.r) < kr THEN Fault(m, "ub", "R stack underflow")
        ELSE IF name \in Unvalued
        THEN IF Len(m.d) - k + 1 > D_STACK_LEN
             THEN Fault(m, "ub", "D stack overflow")
             ELSE [Fault(m, "unmodelled", name) EXCEPT
                      !.d = SubSeq(m.d, 1, Len(m.d) - k) \o <<NaN>>,
                      !.inst = m.inst + 1]
        ELSE IF name = "**" /\ ~(m.d[Len(m.d)].d = 1
                                   /\ m.d[Len(m.d)].n \in {0, 1, 2, 3})
        THEN Fault(m, "unmodelled", name)
        ELSE IF \/ name = "@" /\ ~Convertible(m.d[Len(m.d)])
                \/ name = "!" /\ ~Convertible(m.d[Len(m.d) - 1])
        THEN Fault(m, "ub", "conversion of the index to uint32_t")
        ELSE
          LET v   == Popped(m.d, k)
              rv  == IF kr = 1 THEN m.r[Len(m.r)] ELSE NaN
              d2  == SubSeq(m.d, 1, Len(m.d) - k) \o BodyPushes(name, v, rv, m.vars)
              r2  == SubSeq(m.r, 1, Len(m.r) - kr) \o BodyPushesR(name, v, rv)
          IN  IF Len(d2) > D_STACK_LEN THEN Fault(m, "ub", "D stack overflow")
              ELSE IF Len(r2) > R_STACK_LEN THEN Fault(m, "ub", "R stack overflow")
              ELSE [m EXCEPT !.d = d2, !.r = r2, !.inst = m.inst + 1,
                             !.vars = BodyVars(name, v, m.vars)]

\* the callback one dispatch runs, up to its tail call
Step(block, m) ==
    IF m.inst >= Len(block) THEN Fault(m, "ub", "dispatch outside the block")
    ELSE
      LET opcode == Elem(block, m.inst)
          imm    == IF m.inst + 1 < Len(block) THEN Elem(block, m.inst + 1)
                    ELSE Pc(0)
      IN
      IF opcode.k # "callback" THEN Fault(m, "ub", "dispatch of an immediate")
      ELSE IF opcode.v = "op_number" THEN
          IF imm.k # "number" THEN Fault(m, "unmodelled", "op_number")
          ELSE IF Len(m.d) >= D_STACK_LEN THEN Fault(m, "ub", "D stack overflow")
          ELSE [m EXCEPT !.d = Append(m.d, imm.v), !.inst = m.inst + 2]
      ELSE IF opcode.v = "op_jump_if" THEN
          IF Len(m.d) = 0 THEN Fault(m, "ub", "D stack underflow")
          ELSE [m EXCEPT !.d = SubSeq(m.d, 1, Len(m.d) - 1),
                         !.inst = m.inst + (IF DEq(m.d[Len(m.d)], Double(0))
                                            THEN imm.v ELSE 2)]
      ELSE IF opcode.v = "op_jump" THEN [m EXCEPT !.inst = m.inst + imm.v]
      ELSE IF opcode.v = "op_nop" THEN [m EXCEPT !.inst = m.inst + 1]
      ELSE IF opcode.v = "op_halt" THEN
          [m EXCEPT !.status = "halted",
                    !.vars = [m.vars EXCEPT !.final_d_stack_ptr = Len(m.d),
                                            !.final_r_stack_ptr = Len(m.r)]]
      ELSE IF opcode.v = "op_eval_code"
      THEN Fault(m, "aborted", "eval_code instruction executed after inlining")
      ELSE ExecBuiltin(opcode.v, m)

\* a variant of the start that keeps what the last run left on the stacks
Start_kept(vr) == [inst |-> 0, d |-> d_stack, r |-> r_stack, vars |-> vr,
                   status |-> "running", error |-> ""]

\* the machine state forth_run starts from
Start(vr) == [inst |-> 0, d |-> <<>>, r |-> <<>>, vars |-> vr,
              status |-> "running", error |-> ""]

-----------------------------------------------------------------------------
(* Parser.  The handlers work on ctx, the record of the fields of struct   *)
(* forth_ctx they read and write, and on code, an offset in the text.  A   *)
(* result is [ret, ctx, error, status]: ret is the returned offset, or     *)
(* NULL_PTR for a NULL return; status is "ub" when the handler wrote       *)
(* through a pointer that is outside the block it was taken from.          *)

NULL_PTR == -1

Ok(ctx, ret) == [ret |-> ret, ctx |-> ctx, error |-> "", status |-> "ok"]

Fail(ctx, why) == [ret |-> NULL_PTR, ctx |-> ctx, error |-> why, status |-> "ok"]

\* EMIT(arg) on ctx->defining_word->code
EmitTo(ctx, slot) ==
    [ctx EXCEPT !.words[ctx.defining_word] = EMIT(@, slot)]

\* a variant of the line comment that skips nothing
builtin_backslash_open(text, ctx, c) == Ok(ctx, c)

\* BUILTIN_COMPILER("\\")
builtin_backslash(text, ctx, c) ==
    LET p == strchr(text, c, "\n")
    IN  IF p = -1 THEN Fail(ctx, "") ELSE Ok(ctx, p + 1)

\* BUILTIN_COMPILER("(")
builtin_paren(text, ctx, c) ==
    LET p == strchr(text, c, ")")
    IN  IF p = -1 THEN Fail(ctx, "") ELSE Ok(ctx, p + 1)

\* a ":" that opens a definition whatever the defining target (a faulty
\* variant of builtin_colon)
builtin_colon_unchecked(ctx, c) == Ok([ctx EXCEPT !.defining_word = NULL], c)

\* BUILTIN_COMPILER(":")
builtin_colon(ctx, c) ==
    IF is_inside_word_def(ctx.defining_word)
    THEN Fail(ctx, "Already defining word")
    ELSE Ok([ctx EXCEPT !.defining_word = NULL], c)

\* BUILTIN_COMPILER(";")
builtin_semicolon(ctx, c) ==
    IF ctx.j_stack # <<>> THEN Fail(ctx, "Unmatched if/then/else")
    ELSE IF ~is_inside_word_def(ctx.defining_word)
    THEN Fail(ctx, "Ending word without defining one")
    ELSE Ok([ctx EXCEPT !.defining_word = main], c)

\* a variant of "if" that does not test the depth of the jump stack
builtin_if_unchecked(ctx, c) ==
    LET c1  == EmitTo(ctx, Callback("op_jump_if"))
        c2  == EmitTo(c1, Pc(0))
        idx == Len(c2.words[c2.defining_word]) - 1
    IN  Ok([c2 EXCEPT !.j_stack = Append(@, idx)], c)

\* BUILTIN_COMPILER("if")
builtin_if(ctx, c) ==
    IF Len(ctx.j_stack) >= J_STACK_LEN
    THEN Fail(ctx, "Too many nested 'if' words")
    ELSE LET c1  == EmitTo(ctx, Callback("op_jump_if"))
             c2  == EmitTo(c1, Pc(0))
             idx == Len(c2.words[c2.defining_word]) - 1
         IN  Ok([c2 EXCEPT !.j_stack = Append(@, idx)], c)

\* prev_pc_imm->pc = forth_code_len(&ctx->defining_word->code), where
\* prev_pc_imm was taken at index idx when the block had old_len slots
PatchPrev(ctx, idx, old_len, c) ==
    LET block == ctx.words[ctx.defining_word]
    IN  IF idx >= old_len
        THEN [ret |-> c, ctx |-> ctx, error |-> "", status |-> "ub"]
        ELSE Ok([ctx EXCEPT !.words[ctx.defining_word][idx + 1] =
                                Pc(Len(block))], c)

builtin_else_then(ctx, c, is_then) ==
    IF ctx.j_stack = <<>>
    THEN Fail(ctx, IF is_then THEN "'then' before 'if'"
                   ELSE "'else' before 'if'")
    ELSE
      LET idx     == ctx.j_stack[Len(ctx.j_stack)]
          old_len == Len(ctx.words[ctx.defining_word])
          popped  == [ctx EXCEPT !.j_stack = SubSeq(@, 1, Len(@) - 1)]
      IN  IF is_then
          THEN PatchPrev(EmitTo(popped, Callback("op_nop")), idx, old_len, c)
          ELSE LET c1 == EmitTo(popped, Callback("op_jump"))
               IN  IF Len(c1.j_stack) >= J_STACK_LEN
                   THEN Fail(c1, "Else is too deep")
                   ELSE LET c2 == EmitTo(c1, Pc(0))
                            at == Len(c2.words[c2.defining_word]) - 1
                        IN  PatchPrev([c2 EXCEPT !.j_stack = Append(@, at)],
                                      idx, old_len, c)

\* w->builtin->callback_compiler(ctx, code)
callback_compiler(name, text, ctx, c) ==
    CASE name = "\\"   -> builtin_backslash(text, ctx, c)
      [] name = "("    -> builtin_paren(text, ctx, c)
      [] name = ":"    -> builtin_colon(ctx, c)
      [] name = ";"    -> builtin_semicolon(ctx, c)
      [] name = "if"   -> builtin_if(ctx, c)
      [] name = "else" -> builtin_else_then(ctx, c, FALSE)
      [] name = "then" -> builtin_else_then(ctx, c, TRUE)

\* new_user_word: a word with an empty block, added to the map
new_user_word(ctx, name) ==
    [ctx EXCEPT !.words = (name :> <<>>) @@ @, !.defining_word = name]

\* found_word(ctx, code, word, word_len): word is the byte sequence of the
\* word, c the offset one past it
found_word(text, ctx, c, word) ==
    IF Len(word) > MAX_WORD_LEN THEN Fail(ctx, "Word too long")
    ELSE
      LET word_copy == Str(word)
          number    == parse_number(word)
          w         == hash_find(ctx.words, word_copy)
      IN
      IF number[1] THEN
          IF ctx.defining_word = NULL THEN Fail(ctx, "Can't redefine number")
          ELSE Ok(EmitTo(EmitTo(ctx, Callback("op_number")),
                         Number(number[2])), c)
      ELSE IF ctx.defining_word # NULL THEN
          IF w = NULL THEN Fail(ctx, "Undefined word")
          ELSE IF w = "compiler"
          THEN callback_compiler(word_copy, text, ctx, c)
          ELSE IF w = "builtin"
          THEN Ok(EmitTo(ctx, Callback(word_copy)), c)
          ELSE Ok(EmitTo(EmitTo(ctx, Callback("op_eval_code")),
                         CodeRef(word_copy)), c)
      ELSE IF w # NULL
      THEN Fail(ctx, IF w = "user" THEN "Can't redefine word"
                     ELSE "Can't redefine built-in word")
      ELSE Ok(new_user_word(ctx, word_copy), c)

-----------------------------------------------------------------------------
(* Source texts *)

\* the bytes of a token of the source texts below
Bytes(s) ==
    CASE s = "0" -> <<"0">>
      [] s = "1" -> <<"1">>
      [] s = "2" -> <<"2">>
      [] s = "3" -> <<"3">>
      [] s = "4" -> <<"4">>
      [] s = "5" -> <<"5">>
      [] s = "10" -> <<"1", "0">>
      [] s = "60" -> <<"6", "0">>
      [] s = "400" -> <<"4", "0", "0">>
      [] s = "7" -> <<"7">>
      [] s = "16" -> <<"1", "6">>
      [] s = "17" -> <<"1", "7">>
      [] s = "@" -> <<"@">>
      [] s = "!" -> <<"!">>
      [] s = "x" -> <<"x">>
      [] s = "mx" -> <<"m", "x">>
      [] s = "my" -> <<"m", "y">>
      [] s = "button" -> <<"b", "u", "t", "t", "o", "n">>
      [] s = "buttons" -> <<"b", "u", "t", "t", "o", "n", "s">>
      [] s = "audio" -> <<"a", "u", "d", "i", "o">>
      [] s = "sample" -> <<"s", "a", "m", "p", "l", "e">>
      [] s = "bwsample" -> <<"b", "w", "s", "a", "m", "p", "l", "e">>
      [] s = "-rot" -> <<"-", "r", "o", "t">>
      [] s = ">=" -> <<">", "=">>
      [] s = "**" -> <<"*", "*">>
      [] s = "-" -> <<"-">>
      [] s = "dup" -> <<"d", "u", "p">>
      [] s = "drop" -> <<"d", "r", "o", "p">>
      [] s = "swap" -> <<"s", "w", "a", "p">>
      [] s = "+" -> <<"+">>
      [] s = "*" -> <<"*">>
      [] s = "/" -> <<"/">>
      [] s = ":" -> <<":">>
      [] s = ";" -> <<";">>
      [] s = "if" -> <<"i", "f">>
      [] s = "else" -> <<"e", "l", "s", "e">>
      [] s = "then" -> <<"t", "h", "e", "n">>
      [] s = "\\" -> <<"\\">>
      [] s = "(" -> <<"(">>
      [] s = ")" -> <<")">>
      [] s = "a" -> <<"a">>
      [] s = "b" -> <<"b">>
      [] s = "sq" -> <<"s", "q">>
      [] s = "nice" -> <<"n", "i", "c", "e">>
      [] s = "juanita" -> <<"j", "u", "a", "n", "i", "t", "a">>
      [] s = "foo" -> <<"f", "o", "o">>
      [] s = "y" -> <<"y">>
      [] s = "t" -> <<"t">>
      [] s = "dt" -> <<"d", "t">>
      [] s = "push" -> <<"p", "u", "s", "h">>
      [] s = "pop" -> <<"p", "o", "p">>
      [] s = ">r" -> <<">", "r">>
      [] s = "r>" -> <<"r", ">">>
      [] s = "r@" -> <<"r", "@">>
      [] s = "over" -> <<"o", "v", "e", "r">>
      [] s = "2dup" -> <<"2", "d", "u", "p">>
      [] s = "z+" -> <<"z", "+">>
      [] s = "z*" -> <<"z", "*">>
      [] s = "rot" -> <<"r", "o", "t">>
      [] s = "=" -> <<"=">>
      [] s = "<>" -> <<"<", ">">>
      [] s = ">" -> <<">">>
      [] s = "<" -> <<"<">>
      [] s = "<=" -> <<"<", "=">>
      [] s = "mod" -> <<"m", "o", "d">>
      [] s = "pow" -> <<"p", "o", "w">>
      [] s = "atan2" -> <<"a", "t", "a", "n", "2">>
      [] s = "and" -> <<"a", "n", "d">>
      [] s = "or" -> <<"o", "r">>
      [] s = "not" -> <<"n", "o", "t">>
      [] s = "min" -> <<"m", "i", "n">>
      [] s = "max" -> <<"m", "a", "x">>
      [] s = "negate" -> <<"n", "e", "g", "a", "t", "e">>
      [] s = "sin" -> <<"s", "i", "n">>
      [] s = "cos" -> <<"c", "o", "s">>
      [] s = "tan" -> <<"t", "a", "n">>
      [] s = "log" -> <<"l", "o", "g">>
      [] s = "exp" -> <<"e", "x", "p">>
      [] s = "sqrt" -> <<"s", "q", "r", "t">>
      [] s = "floor" -> <<"f", "l", "o", "o", "r">>
      [] s = "ceil" -> <<"c", "e", "i", "l">>
      [] s = "abs" -> <<"a", "b", "s">>
      [] s = "pi" -> <<"p", "i">>
      [] s = "random" -> <<"r", "a", "n", "d", "o", "m">>

\* the longest free sequence of tokens
MaxTokens == 3

\* the most numbers pushed ahead of a conditional
MaxPre == 2

\* the number of dispatches a bounded run takes at most
MaxSteps == 24

RECURSIVE Join(_)
\* the tokens of a sequence, separated by single spaces
Join(ts) ==
    IF ts = <<>> THEN <<>>
    ELSE IF Len(ts) = 1 THEN Bytes(ts[1])
    ELSE Join(SubSeq(ts, 1, Len(ts) \div 2)) \o <<" ">>
             \o Join(SubSeq(ts, Len(ts) \div 2 + 1, Len(ts)))

RECURSIVE Rep(_, _)
\* n copies of a sequence
Rep(ts, n) ==
    IF n = 0 THEN <<>>
    ELSE IF n % 2 = 0 THEN LET half == Rep(ts, n \div 2) IN half \o half
    ELSE ts \o Rep(ts, n - 1)

Alphabet == {"0", "1", "5", "x", "+", "dup", "drop", "if", "else", "then",
             ":", ";", "a"}

\* every sequence of at most MaxTokens tokens
FreePrograms ==
    UNION {[1..n -> Alphabet] : n \in 0..MaxTokens}

Conds == {"0", "1", "x"}

Branches == {<<>>, <<"1">>, <<"2">>, <<"dup">>, <<"drop">>, <<"1", "2">>}

Tails == {<<>>, <<"dup">>, <<"+">>, <<"drop">>}

\* pre c if A then post, and pre c if A else B then post
CondPrograms ==
    {Rep(<<"5">>, n) \o <<c, "if">> \o A \o <<"then">> \o post :
        n \in 0..MaxPre, c \in Conds, A \in Branches, post \in Tails}
    \cup
    {Rep(<<"5">>, n) \o <<c, "if">> \o A \o <<"else">> \o B \o <<"then">> \o post :
        n \in 0..MaxPre, c \in Conds, A \in Branches, B \in Branches,
        post \in Tails}

Bodies == {<<>>, <<"1">>, <<"dup", "*">>, <<"dup", "dup">>, <<"2", "*">>,
           <<"x", "if", "1", "else", "2", "then">>, <<"a">>, <<"b">>,
           <<"1", "if">>}

Calls == {<<>>, <<"3", "a">>, <<"3", "b">>, <<"a", "b">>, <<"3", "a", "a">>,
          <<"3", "dup", "dup">>, <<"5", "dup", "dup", "drop", "drop">>,
          <<"x", "if", "3", "a", "else", "3", "b", "then">>,
          <<"3", "dup", "+", "2", "*">>, <<"3", "2", "/", "2", "*">>}

\* : a A ; : b B ; main, and the same with one definition or none
DefPrograms ==
    {<<":", "a">> \o A \o <<";", ":", "b">> \o B \o <<";">> \o m :
        A \in Bodies, B \in Bodies, m \in Calls}
    \cup {<<":", "a">> \o A \o <<";">> \o m : A \in Bodies, m \in Calls}
    \cup Calls

\* the program main() of forth.c compiles
MainProgram ==
    <<":", "nice", "60", "5", "4", "+", "+", ";",
      ":", "juanita", "400", "10", "5", "5", "+", "+", "+", ";",
      "x", "if", "nice", "else", "juanita", "then",
      "2", "*", "4", "/", "2", "*">>

\* texts given byte by byte: blank texts, comments, a word that is too
\* long, a word of the longest length, a byte that is not printable
Texts ==
    {<<>>, <<" ">>, <<" ", "\n", "\t", " ">>,
     <<"\n", "1", "\t", " ", "2", " ", " ">>,
     Join(<<"(", "1", ")", "2">>), Join(<<"(", "1">>),
     Join(<<"1", "\\", "2">>) \o <<"\n">> \o Join(<<"3">>),
     Join(<<"1", "\\", "2">>),
     Join(<<"\\", "5">>) \o <<"\n">> \o Join(<<"1", "2", "+">>),
     Join(<<"(", "5", ")">>) \o Join(<<"1", "2", "+">>),
     Join(<<"1", "if", ":", "a", "then", ";">>),
     Join(<<"1", "if", ":", "a", "5", "5", "then", ";">>),
     Rep(<<"a">>, MAX_WORD_LEN + 1), Rep(<<"a">>, MAX_WORD_LEN),
     Join(<<":">>) \o <<" ">> \o Rep(<<"a">>, MAX_WORD_LEN) \o <<" ">>
         \o Join(<<"1", ";">>) \o <<" ">> \o Rep(<<"a">>, MAX_WORD_LEN),
     <<"1", " ", CtrlA>>, <<"1", CtrlA, " ", "2">>}

\* the example of a user word, and a word defined twice
SqProgram == <<":", "sq", "dup", "*", ";", "3", "sq">>

TwiceProgram == <<":", "a", ";", ":", "a", "1", ";">>

\* n times the tokens ts, each followed by a blank
Times(ts, n) == Rep(Join(ts) \o <<" ">>, n)

\* n nested ifs
Nested(n) == Times(<<"1", "if">>, n) \o Times(<<"then">>, n)

\* the text of n user words, each but the first calling the one before it,
\* and a call of the last one from main: ": w001 1 ; : w002 w001 ; ... wn"
ChainText(n) ==
    LET Name(k) == <<"w", Digits[(k \div 100) + 1],
                     Digits[((k \div 10) % 10) + 1], Digits[(k % 10) + 1]>>
        Def(k)  == <<":", " ">> \o Name(k) \o <<" ">>
                       \o (IF k = 1 THEN <<"1", " ", " ", " ">> ELSE Name(k - 1))
                       \o <<" ", ";", " ">>
    IN  [i \in 1..(14 * n + 4) |->
            IF i > 14 * n THEN Name(n)[i - 14 * n]
            ELSE Def(((i - 1) \div 14) + 1)[((i - 1) % 14) + 1]]

\* texts that reach the capacities of the stacks and the limit of the
\* inliner, and words that call themselves
DeepTexts ==
    {ChainText(2), ChainText(RECURSION_LIMIT - 1), ChainText(RECURSION_LIMIT),
     Join(<<":", "a", "a", ";">>), Join(<<":", "a", "a", ";", "a">>),
     Join(<<":", "a", "1", "a", ";", ":", "b", "a", ";", "1", "if", "b",
            "then">>),
     Nested(J_STACK_LEN), Nested(J_STACK_LEN + 1),
     Times(<<"1">>, D_STACK_LEN) \o Join(<<"drop">>),
     Times(<<"1">>, D_STACK_LEN + 1) \o Join(<<"if", "then", "if", "then">>),
     Times(<<":", "a">>, 1) \o Nested(3) \o Times(<<";">>, 1)
         \o Times(<<"1", "if">>, J_STACK_LEN) \o Times(<<"a">>, 1)
         \o Times(<<"then">>, J_STACK_LEN)}

\* texts with one comment: what stands before it, the comment word with
\* the separator that follows it, the byte that ends the comment, and what
\* stands after it
Frames ==
    [pre   : {<<>>, Times(<<"1">>, 1), Times(<<":", "a">>, 1)},
     open  : {<<"(", " ">>},
     close : {<<")">>},
     post  : {<<>>, <<" ">> \o Join(<<"2">>), Join(<<"2", "3">>),
              <<" ">> \o Join(<<";">>)}]
    \cup
    [pre   : {<<>>, Times(<<"1">>, 1), Times(<<":", "a">>, 1)},
     open  : {<<"\\", " ">>, <<"\\", "\t">>},
     close : {<<"\n">>},
     post  : {<<>>, <<" ">> \o Join(<<"2">>), Join(<<"2", "3">>),
              <<" ">> \o Join(<<";">>)}]

\* the bytes inside the comment
Contents ==
    {<<>>, Join(<<"2">>), Join(<<"foo">>), Join(<<":", "b", ";">>),
     Times(<<"if">>, 1), Times(<<"(">>, 1), Times(<<"\\">>, 1) \o Join(<<"x">>),
     <<CtrlA>>, Times(<<"2", "3", "+">>, 2)}

CommentText(f, c) == f.pre \o f.open \o c \o f.close \o f.post

\* programs the peephole passes rewrite into the fused builtins, programs
\* that divide at run time, and programs that read the input stubs
BuiltinPrograms ==
    {<<"mx">>, <<"my">>, <<"buttons">>, <<"5", "button">>, <<"5", "audio">>,
     <<"3", "5", "sample">>, <<"3", "5", "bwsample">>,
     <<"x", "mx", "my", "sample", "audio", "button">>,
     <<"0", "5", "-", "0", "/">>, <<"5", "x", "/">>,
     <<"0", "5", "-", "x", "/">>, <<"x", "x", "/">>,
     <<"1", "5", "x", "*", "+">>, <<"1", "5", "x", "-rot", "swap">>,
     <<"1", "5", "x", ">=", "swap">>, <<"x", "1", "5", ">=", "swap">>,
     <<"x", "2", "*">>, <<"x", "2", "/">>, <<"x", "2", "**">>,
     <<"x", "5", "-", "2", "*">>, <<"x", "5", "-", "2", "/">>,
     <<"x", "5", "-", "2", "**">>,
     <<"x", "dup", "dup", "if", "1", "else", "2", "then">>,
     <<"x", "dup", "dup", "if", "1", "then">>,
     <<"x", "if", "1", "then", "dup", "dup">>,
     <<"x", "if", "5", "then", "2", "*">>,
     <<"1", "x", "if", "2", "then", "+">>,
     <<"1", "x", "if", "5", "else", "2", "then", "+">>,
     <<"5", "1", "2", "*", "*">>, <<"3", "5", "2", "*">>,
     <<"1", "2", "*">>, <<"x", "5", "1", "2", "*", "*">>,
     <<"x", "3", "5", "2", "*">>}

\* one program without a jump for every runtime builtin: the builtin after
\* as many x as it pops from D, and after one more; the builtins that pop
\* from R after "x >r"; the sources of fma, multpi and multhalfpi
EffectPrograms ==
    {(IF Builtin(n).r_pops > 0 THEN <<"x", ">r">> ELSE <<>>)
         \o Rep(<<"x">>, Builtin(n).d_pops + e) \o <<n>> :
        n \in BuiltinNames \ {" dupdup", " -rotswap", " >=swap", " fma",
                              " mult2", " pow2", " div2", " multpi",
                              " multhalfpi"},
        e \in {0, 1}}
    \cup {<<"x", "x", "x", "*", "+">>, <<"x", "pi", "*">>,
          <<"x", "pi", "*", "2", "/">>, <<"x", "x", "pi", "*", "2", "/">>}

\* programs that end with two number pushes and an arithmetic word
FoldTable ==
    [pre : {<<>>, <<"x">>, <<"5">>}, a : {"0", "1", "2", "3"},
     b : {"0", "2", "3"}, op : {"+", "-", "*", "/"}]

FoldProgram(f) == f.pre \o <<f.a, f.b, f.op>>

\* the programs i v ! j @: the index i of the store, the value v stored and
\* the index j of the fetch that follows
MemTable == [i : {"0", "1", "17"}, v : {"5", "7"}, j : {"0", "1", "16", "17"}]

\* two stores before the fetch, an index that is no whole number, a
\* negative one, an infinite one, a fetch from the memory as the caller
\* left it, and a fetch ahead of a store to the same slot
MemPrograms ==
    {<<"0", "5", "!", "1", "7", "!", "0", "@">>,
     <<"1", "5", "!", "17", "7", "!", "1", "@">>,
     <<"5", "2", "/", "7", "!", "2", "@">>,
     <<"0", "5", "-", "7", "!">>,
     <<"0", "1", "-", "2", "/", "7", "!", "0", "@">>,
     <<"1", "0", "/", "@">>,
     <<"3", "@">>,
     <<"1", "@", "1", "5", "!">>}

Sources ==
    {Join(ts) : ts \in FreePrograms \cup CondPrograms \cup DefPrograms
                       \cup BuiltinPrograms \cup EffectPrograms
                       \cup {FoldProgram(f) : f \in FoldTable}
                       \cup {<<f.i, f.v, "!", f.j, "@">> : f \in MemTable}
                       \cup MemPrograms
                       \cup {MainProgram, SqProgram, TwiceProgram}}
    \cup Texts \cup DeepTexts
    \cup {CommentText(f, c) : f \in Frames, c \in Contents}

\* the values a run is given for x
VarVals == {0, 1}

-----------------------------------------------------------------------------
(* The state machine *)

\* struct forth_vars before a run
NoVars == [x |-> Double(0), y |-> Double(0), t |-> Double(0),
           dt |-> Double(0), memory |-> [i \in 0..(CAP - 1) |-> Double(0)],
           final_d_stack_ptr |-> -1, final_r_stack_ptr |-> -1]

\* forth_new, then the entry of forth_parse_string on one source text
Init ==
    /\ input \in Sources
    /\ code = 0
    /\ words = (main :> <<>>)
    /\ defining_word = main
    /\ j_stack = <<>>
    /\ phase = "parse"
    /\ error = ""
    /\ inlined = <<>>
    /\ inst = 0
    /\ d_stack = <<>>
    /\ r_stack = <<>>
    /\ vars = NoVars

\* where the next word starts: while (isspace(*code)) code++;
word_ptr == SkipSpace(input, code)

\* the text is used up: while (*code) is left, or goto finish is taken
AtEnd == At(input, word_ptr) = NUL

\* one past the next word, or -1 when it holds a byte that is not printable
word_end == ScanWord(input, word_ptr)

\* the bytes of the next word
NextWord == SubSeq(input, word_ptr + 1, word_end)

\* the struct forth_ctx fields of the current state
Ctx == [words |-> words, defining_word |-> defining_word, j_stack |-> j_stack]

\* one iteration of the while (*code) loop of forth_parse_string that
\* finds a word, from offset c of the text: the scan, found_word, and the
\* step over the separator.  The result is [phase, error, code, ctx].
ParseStep(text, c, ctx) ==
    LET wp == SkipSpace(text, c)
        we == ScanWord(text, wp)
    IN  IF we = -1
        THEN [phase |-> "failed", error |-> "unprintable", code |-> c,
              ctx |-> ctx]
        ELSE LET r == found_word(text, ctx, we, SubSeq(text, wp + 1, we))
             IN  [phase |-> IF r.status = "ub" THEN "ub"
                            ELSE IF r.ret = NULL_PTR THEN "failed"
                            ELSE "parse",
                  error |-> r.error,
                  code  |-> IF r.ret = NULL_PTR \/ r.status = "ub" THEN c
                            ELSE IF At(text, r.ret) = NUL THEN r.ret
                            ELSE r.ret + 1,
                  ctx   |-> r.ctx]

\* the end of forth_parse_string once check_stack_effects has returned chk
AfterCheck(W, inl, pp, chk, benign) ==
    [phase |-> IF (inl.status = "ub" \/ pp.status = "ub") /\ ~benign THEN "ub"
               ELSE IF chk = "" THEN "ready"
               ELSE IF SubSeq(chk, 1, 8) = "critical" THEN "aborted"
               ELSE "failed",
     error |-> chk,
     words |-> [W EXCEPT ![main] = pp.code],
     inlined |-> inl.code]

\* the end of forth_parse_string once the peephole passes have left pp
AfterPeephole(W, inl, pp, benign) ==
    AfterCheck(W, inl, pp, check_stack_effects(pp.code), benign)

\* the end of forth_parse_string once inline_calls has returned inl
AfterInline(W, inl, benign) ==
    IF ~inl.ret
    THEN [phase |-> IF inl.status = "ub" /\ ~benign THEN "ub" ELSE "failed",
          error |-> IF inl.error = "" THEN "inline_calls" ELSE inl.error,
          words |-> W, inlined |-> <<>>]
    ELSE AfterPeephole(W, inl, RunPeephole(inl.code), benign)

\* the finish: label of forth_parse_string.  The result is
\* [phase, error, words, inlined].  When the inliner or the optimizer wrote
\* outside its jump stack, the outcome is either "ub" or, with benign, the
\* one of a write that did no harm.
FinishStep(ctx, benign) ==
    IF is_inside_word_def(ctx.defining_word)
    THEN [phase |-> "failed", error |-> "Word definition not finished",
          words |-> ctx.words, inlined |-> <<>>]
    ELSE LET W == [ctx.words EXCEPT ![main] = EMIT(@, Callback("op_halt"))]
         IN  AfterInline(W, inline_calls(W), benign)

\* forth_parse_string from offset c on, a write outside an array taken as
\* the end
RECURSIVE ParseFrom(_, _, _)
ParseFrom(text, c, ctx) ==
    IF At(text, SkipSpace(text, c)) = NUL THEN FinishStep(ctx, FALSE)
    ELSE LET s == ParseStep(text, c, ctx)
         IN  IF s.phase # "parse"
             THEN [phase |-> s.phase, error |-> s.error,
                   words |-> s.ctx.words, inlined |-> <<>>]
             ELSE ParseFrom(text, s.code, s.ctx)

\* forth_parse_string on the context forth_new returns
forth_parse_string(text) ==
    ParseFrom(text, 0, [words |-> (main :> <<>>), defining_word |-> main,
                        j_stack |-> <<>>])

\* one turn of LWAN_ARRAY_FOREACH over a block, as inline_calls_code, peephole
\* and check_stack_effects make it: st.slots are the slots taken as opcodes
NextSlot(block, st) ==
    IF st.i >= Len(block) THEN [st EXCEPT !.done = TRUE]
    ELSE [st EXCEPT !.slots = @ \cup {st.i},
                    !.i = IF has_imm(Elem(block, st.i)) THEN @ + 2 ELSE @ + 1]

\* one turn of the loop of check_stack_effects without its tests: st.d and
\* st.r are items_in_d_stack and items_in_r_stack, st.top the largest value
\* either has taken
CountItems(block, st) ==
    IF st.i >= Len(block) THEN [st EXCEPT !.done = TRUE]
    ELSE
      LET opcode == Elem(block, st.i)
          b      == Builtin(opcode.v)
          wide   == opcode.v \in {"op_number", "op_jump_if", "op_jump"}
          plain  == opcode.v \in {"op_halt", "op_nop"}
          d2     == IF opcode.v = "op_number" THEN st.d + 1
                    ELSE IF opcode.v = "op_jump_if" THEN st.d - 1
                    ELSE IF wide \/ plain THEN st.d
                    ELSE st.d - b.d_pops + b.d_pushes
          r2     == IF wide \/ plain THEN st.r
                    ELSE st.r - b.r_pops + b.r_pushes
          m2     == IF d2 > st.top THEN d2 ELSE st.top
      IN  [st EXCEPT !.i = IF wide THEN @ + 2 ELSE @ + 1,
                     !.d = d2, !.r = r2,
                     !.top = IF r2 > m2 THEN r2 ELSE m2]

\* one turn of the loop of the function named
Turn(loop, env, st) ==
    CASE loop = "inline_calls_code"   -> InlineLoop(env, st)
      [] loop = "peephole"            -> PeepholeLoop(env, st)
      [] loop = "check_stack_effects" -> CheckLoop(env, st)
      [] loop = "slots"               -> NextSlot(env, st)
      [] loop = "items"               -> CountItems(env, st)

\* one turn of the while loop of forth_parse_string
ParseWord ==
    /\ phase = "parse"
    /\ ~AtEnd
    /\ UNCHANGED <<input, inlined, inst, d_stack, r_stack, vars>>
    /\ \E s \in {ParseStep(input, code, Ctx)} :
           /\ phase' = s.phase
           /\ error' = s.error
           /\ code' = s.code
           /\ words' = s.ctx.words
           /\ defining_word' = s.ctx.defining_word
           /\ j_stack' = s.ctx.j_stack

\* the end of the input: forth_parse_string from the finish label on.  A
\* store outside jump_stack either ends in an unknown state or does no harm.
Finish ==
    /\ phase = "parse"
    /\ AtEnd
    /\ UNCHANGED <<input, code, defining_word, j_stack, inst, d_stack,
                   r_stack, vars>>
    /\ \E f \in {FinishStep(Ctx, benign) : benign \in BOOLEAN} :
           /\ phase' = f.phase
           /\ error' = f.error
           /\ words' = f.words
           /\ inlined' = f.inlined

\* forth_run up to the first dispatch, on a context that was compiled
forth_run ==
    /\ phase \in {"ready", "halted"}
    /\ \E xv \in VarVals, mem \in {NoVars.memory, vars.memory} :
         LET m == Start([NoVars EXCEPT !.x = Double(xv), !.memory = mem])
         IN  /\ inst' = m.inst
             /\ d_stack' = m.d
             /\ r_stack' = m.r
             /\ vars' = m.vars
    /\ phase' = "running"
    /\ error' = ""
    /\ UNCHANGED <<input, code, words, defining_word, j_stack, inlined>>

\* the interpreter's registers as a machine state
Machine == [inst |-> inst, d |-> d_stack, r |-> r_stack, vars |-> vars,
            status |-> phase, error |-> error]

\* one callback of the threaded code, entered by forth_run or a tail call
Dispatch ==
    /\ phase = "running"
    /\ LET m == Step(words[main], Machine)
       IN  /\ inst' = m.inst
           /\ d_stack' = m.d
           /\ r_stack' = m.r
           /\ vars' = m.vars
           /\ phase' = m.status
           /\ error' = m.error
    /\ UNCHANGED <<input, code, words, defining_word, j_stack, inlined>>

Next == ParseWord \/ Finish \/ forth_run \/ Dispatch

Spec == Init /\ [][Next]_vars_

\* the interpreter keeps dispatching while it can
FairSpec == Spec /\ WF_vars_(Dispatch)

-----------------------------------------------------------------------------
(* Properties *)

\* the run of a block from machine state m, for at most fuel dispatches
RECURSIVE Run(_, _, _)
Run(block, m, fuel) ==
    IF m.status # "running" \/ fuel = 0 THEN m
    ELSE Run(block, Step(block, m), fuel - 1)

\* forth_parse_string returned true and the context was not touched since
Compiled == phase \in {"ready", "running", "halted"}

\* the stack faults of a run
StackFaults == {"D stack underflow", "D stack overflow",
                "R stack underflow", "R stack overflow"}

\* the indices of the opcode slots of a block, from opcode slot i on
OpcodeSlots(block, i) ==
    Loop("slots", block, [i |-> i, slots |-> {}, done |-> FALSE], 0).slots

\* the number of slots of a block that hold a given callback
Count(block, name) ==
    Cardinality({i \in DOMAIN block : IsCallback(block[i], name)})

\* what a sequence of numbers and runtime builtins, run in order with no
\* branch, makes of machine state m
RECURSIVE Eval(_, _)
Eval(ts, m) ==
    IF ts = <<>> \/ m.status # "running" THEN m
    ELSE LET number == parse_number(Bytes(ts[1]))
         IN  Eval(Tail(ts),
                  IF number[1] THEN [m EXCEPT !.d = Append(@, number[2])]
                  ELSE ExecBuiltin(ts[1], m))

\* C1: every run of a program that forth_parse_string accepted comes to an
\* end after finitely many dispatches (the claim asks that the end is halt,
\* with both final stack pointers written; this asks only that the
\* dispatching ends, be it by halt or by a fault).
C1_RunEnds == (phase = "running") ~> (phase # "running")

\* the run of "1 if else" is at a jump whose dispatch leads back to itself
C1_LoopReached ==
    /\ input = Join(<<"1", "if", "else">>)
    /\ phase = "running"
    /\ IsCallback(Elem(words[main], inst), "op_jump")
    /\ Step(words[main], Machine) = Machine

\* C2: no step of the run of an accepted program pops from an empty D or R
\* stack or pushes onto a full one.
C2_NoStackFault == ~(phase = "ub" /\ error \in StackFaults)

\* the run of "0 if 1 then dup" has popped from the empty D stack
C2_UnderflowReached ==
    /\ input = Join(<<"0", "if", "1", "then", "dup">>)
    /\ phase = "ub"
    /\ error = "D stack underflow"
    /\ d_stack = <<>>

\* the texts pre c if A else B then post with what they are made of
CondElseTable ==
    {[text |-> Join(Rep(<<"5">>, n) \o <<c, "if">> \o A \o <<"else">> \o B
                    \o <<"then">> \o post),
      pre |-> Rep(<<"5">>, n), c |-> c, A |-> A, B |-> B, post |-> post] :
        n \in 0..MaxPre, c \in Conds, A \in Branches, B \in Branches,
        post \in Tails}

\* the value the conditional pops
CondValue(c, vr) == IF c = "x" THEN vr.x ELSE parse_number(Bytes(c))[2]

\* C3: the run of pre c if A else B then post does what the run of
\* pre A post does when c is not zero and what the run of pre B post does when
\* c is zero: whenever that straight run is free of faults, the run of the
\* conditional halts, with the same D stack.
C3_CondElse ==
    phase \in {"halted", "ub", "aborted"} =>
        \A e \in CondElseTable :
            e.text = input =>
                LET taken == IF DEq(CondValue(e.c, vars), Double(0))
                             THEN e.B ELSE e.A
                    ref   == Eval(e.pre \o taken \o e.post, Start(vars))
                IN  ref.status = "running" =>
                        phase = "halted" /\ d_stack = ref.d

\* the run of "0 if 1 else 2 then" has halted with an empty D stack
C3_ElseSkipped ==
    /\ input = Join(<<"0", "if", "1", "else", "2", "then">>)
    /\ phase = "halted"
    /\ d_stack = <<>>

\* C4: in main's block of an accepted program every jump_if and every jump
\* leads to an opcode slot of the block.
C4_BranchTargets ==
    Compiled =>
        LET block == words[main]
            slots == OpcodeSlots(block, 0)
        IN  \A i \in slots :
                (IsCallback(Elem(block, i), "op_jump_if")
                    \/ IsCallback(Elem(block, i), "op_jump"))
                => (i + Elem(block, i + 1).v) \in slots

\* "0 if else then" is accepted and its jump_if leads past the end
C4_TargetPastEnd ==
    /\ input = Join(<<"0", "if", "else", "then">>)
    /\ phase = "ready"
    /\ IsCallback(Elem(words[main], 2), "op_jump_if")
    /\ 2 + Elem(words[main], 3).v >= Len(words[main])

\* C5: for an accepted program and any vars record, when the run of the
\* block that inlining built halts, the run of the block that the peephole
\* passes built halts too, with the same D and R stacks.
C5_PeepholeKeepsMeaning ==
    phase = "ready" =>
        \A xv \in VarVals :
            LET m == Start([NoVars EXCEPT !.x = Double(xv)])
                a == Run(inlined, m, MaxSteps)
                b == Run(words[main], m, MaxSteps)
            IN  a.status = "halted" =>
                    b.status = "halted" /\ b.d = a.d /\ b.r = a.r

\* "5 dup dup" is accepted; the inlined block leaves three elements, the
\* optimized block four
C5_DupDupDiffers ==
    /\ input = Join(<<"5", "dup", "dup">>)
    /\ phase = "ready"
    /\ Len(Run(inlined, Start(NoVars), MaxSteps).d) = 3
    /\ Len(Run(words[main], Start(NoVars), MaxSteps).d) = 4

\* C6: once inline_calls has succeeded, neither the block it built nor
\* main's final block holds an op_eval_code slot, and no run dispatches
\* op_eval_code; ": sq dup * ; 3 sq" is accepted and runs to D = [9].
C6_NoEvalCode ==
    /\ inlined # <<>> =>
           Count(inlined, "op_eval_code") = 0
           /\ Count(words[main], "op_eval_code") = 0
    /\ error # "eval_code instruction executed after inlining"
    /\ input = Join(SqProgram) =>
           /\ phase \in {"parse", "ready", "running", "halted"}
           /\ phase = "halted" => d_stack = <<Double(9)>>

\* a program whose main calls a word that calls a word has run to its end
C6_NestedCallRan ==
    /\ input = Join(<<":", "a", "dup", "*", ";", ":", "b", "a", ";", "3", "b">>)
    /\ phase = "halted"
    /\ d_stack = <<Double(9)>>

\* C7 as it was claimed: the program of main() leaves 210 when x = 0 and
\* 69 when x = 1.
C7_Claimed ==
    input = Join(MainProgram) =>
        /\ phase \in {"parse", "ready", "running", "halted"}
        /\ phase = "halted" =>
               d_stack = <<IF DEq(vars.x, Double(0)) THEN Double(210)
                           ELSE Double(69)>>

\* C7: the program of main() is accepted and every run of it halts with
\* exactly one element on D: 420 when x = 0 and 69 when x = 1.
C7_MainProgram ==
    input = Join(MainProgram) =>
        /\ phase \in {"parse", "ready", "running", "halted"}
        /\ phase = "halted" =>
               d_stack = <<IF DEq(vars.x, Double(0)) THEN Double(420)
                           ELSE Double(69)>>

\* the program of main() has run with x = 0
C7_RanWithZero ==
    /\ input = Join(MainProgram)
    /\ phase = "halted"
    /\ vars.x = Double(0)
    /\ d_stack = <<Double(420)>>

\* the text holds only blanks
Blank(text) == \A i \in DOMAIN text : isspace(text[i])

\* C8: at the end of the text forth_parse_string fails when a definition
\* is open; otherwise it appends one halt to main, which is the only halt
\* and the last slot of the inlined block, and of the final block when the
\* optimizer copied the whole block and no store left the jump stack; a
\* text of blanks compiles to the single slot halt and runs to an empty D
\* stack.
C8_EndOfInput ==
    /\ [][(phase = "parse" /\ AtEnd) =>
            IF defining_word # main
            THEN phase' = "failed" /\ words' = words
            ELSE IF phase' = "failed" /\ inlined' = <<>>
            THEN words' = [words EXCEPT ![main] =
                               Append(@, Callback("op_halt"))]
            ELSE phase' # "ub" =>
                 /\ Count(inlined', "op_halt") = 1
                 /\ IsCallback(inlined'[Len(inlined')], "op_halt")
                 /\ RunPeephole(inlined').complete =>
                        /\ Count(words'[main], "op_halt") = 1
                        /\ IsCallback(words'[main][Len(words'[main])],
                                      "op_halt")
         ]_vars_
    /\ [](Blank(input) =>
            /\ phase \in {"parse", "ready", "running", "halted"}
            /\ Compiled => words[main] = <<Callback("op_halt")>>
            /\ phase = "halted" => d_stack = <<>>)

\* the text ended after a ":" with no name
C8_OpenAtEnd ==
    /\ phase = "failed"
    /\ error = "Word definition not finished"
    /\ defining_word = NULL

\* a word is about to be handed to found_word
Parsing == phase = "parse" /\ ~AtEnd /\ word_end # -1

\* that word, as found_word's word_copy
Token == Str(NextWord)

\* C9: ":" moves the defining target from main to none and fails from
\* anywhere else; the name that follows makes the new word the target; ";"
\* moves the target from a user word back to main when the jump stack is
\* empty and fails when the target is main or the jump stack is not empty;
\* a failure leaves the target as it was, and so does every other word.
C9_DefiningCycle ==
    [][Parsing =>
        /\ (Token = ":" /\ defining_word = main) =>
               phase' = "parse" /\ defining_word' = NULL
        /\ (Token = ":" /\ defining_word # main) =>
               phase' = "failed" /\ defining_word' = defining_word
        /\ (Token = ";" /\ (defining_word = main \/ j_stack # <<>>)) =>
               phase' = "failed" /\ defining_word' = defining_word
        /\ (Token = ";" /\ defining_word \notin {main, NULL}
                /\ j_stack = <<>>) =>
               phase' = "parse" /\ defining_word' = main
        /\ (defining_word = NULL /\ phase' = "parse") =>
               defining_word' = Token /\ Token \notin DOMAIN words
        /\ phase' = "failed" => defining_word' = defining_word
        /\ (defining_word # NULL /\ Token \notin {":", ";"}) =>
               defining_word' = defining_word
    ]_vars_

\* a definition was opened, named and closed
C9_CycleClosed ==
    /\ phase = "parse"
    /\ defining_word = main
    /\ "a" \in DOMAIN words
    /\ At(input, code - 1) = ";"

\* C10: the word that follows ":" makes a new user word, with an empty
\* block, exactly when it is no number and no word has its name (and it is
\* not too long); otherwise parsing fails and the word map stays as it is.
C10_NewWord ==
    [][(Parsing /\ defining_word = NULL) =>
        IF \/ parse_number(NextWord)[1]
           \/ Token \in DOMAIN words
           \/ Token \in BuiltinNames \cup forth_compiler_builtin
           \/ Len(NextWord) > MAX_WORD_LEN
        THEN phase' = "failed" /\ words' = words /\ defining_word' = NULL
        ELSE /\ phase' = "parse"
             /\ words' = (Token :> <<>>) @@ words
             /\ defining_word' = Token
    ]_vars_

\* the name of a user word was given to ":" again
C10_Redefinition ==
    /\ phase = "failed"
    /\ error = "Can't redefine word"
    /\ defining_word = NULL
    /\ "a" \in DOMAIN words

\* the next word is no number and no name hash_find can find
Unknown ==
    /\ ~parse_number(NextWord)[1]
    /\ Token \notin DOMAIN words \cup BuiltinNames \cup forth_compiler_builtin

\* C11 as it was claimed: with a defining target, a word that is no number
\* and no name of the word map fails as an undefined word and emits nothing.
C11_Claimed ==
    [][(Parsing /\ defining_word # NULL /\ Unknown) =>
        phase' = "failed" /\ error' = "Undefined word" /\ words' = words
    ]_vars_

\* C11: with a defining target, a word that is no number and no name of
\* the word map makes parsing fail and emits nothing: as an undefined word
\* when it has at most 64 bytes, as a word too long otherwise; and no other
\* word fails as undefined, so a user word can be used only after ":" has
\* introduced its name.
C11_UndefinedWord ==
    [][Parsing =>
        /\ (defining_word # NULL /\ Unknown) =>
               /\ phase' = "failed"
               /\ words' = words
               /\ error' = IF Len(NextWord) > MAX_WORD_LEN
                           THEN "Word too long" ELSE "Undefined word"
        /\ error' = "Undefined word" =>
               defining_word # NULL /\ Unknown
                   /\ Len(NextWord) <= MAX_WORD_LEN
    ]_vars_

\* a word was used inside a definition before any ":" introduced it
C11_UnknownInDefinition ==
    /\ phase = "failed"
    /\ error = "Undefined word"
    /\ defining_word = "a"
    /\ Str(SubSeq(input, word_ptr + 1, word_end)) = "b"
    /\ words["a"] = <<>>

\* C12: while parsing the jump stack holds between 0 and 63 indices; else
\* and then fail the parse when it is empty, if fails the parse when it
\* holds 63, and the program of 63 nested ifs parses.
C12_JumpStackDepth ==
    /\ [](Len(j_stack) \in 0..J_STACK_LEN)
    /\ [][(Parsing /\ defining_word # NULL) =>
            /\ (Token \in {"else", "then"} /\ j_stack = <<>>) =>
                   phase' = "failed" /\ j_stack' = j_stack
            /\ (Token = "if" /\ Len(j_stack) = J_STACK_LEN) =>
                   phase' = "failed" /\ j_stack' = j_stack
            /\ (Token = "if" /\ Len(j_stack) < J_STACK_LEN) =>
                   phase' = "parse" /\ Len(j_stack') = Len(j_stack) + 1
       ]_vars_
    /\ [](input = Nested(J_STACK_LEN) => phase \notin {"failed", "ub"})

\* the 64th nested if was refused with 63 placeholders open
C12_FullJumpStack ==
    /\ Len(j_stack) = J_STACK_LEN
    /\ phase = "failed"
    /\ error = "Too many nested 'if' words"

\* the largest value items_in_d_stack or items_in_r_stack takes in the loop
\* of check_stack_effects from slot i on, where they are d and r and the
\* largest value so far is top
MaxItems(block, i, d, r, top) ==
    Loop("items", block,
         [i |-> i, d |-> d, r |-> r, top |-> top, done |-> FALSE], 0).top

\* C13: in every accepted program the depth check_stack_effects simulates
\* stays at most 31 after every instruction of the stream, number pushes and
\* jump_if steps included.
C13_SimulatedDepth ==
    Compiled => MaxItems(words[main], 0, 0, 0, 0) <= D_STACK_LEN - 1

\* a program of 33 number pushes was accepted, and its run wrote past the
\* end of d_stack
C13_PushPastCapacity ==
    /\ input = Times(<<"1">>, D_STACK_LEN + 1)
                   \o Join(<<"if", "then", "if", "then">>)
    /\ MaxItems(words[main], 0, 0, 0, 0) = D_STACK_LEN + 1
    /\ phase = "ub"
    /\ error = "D stack overflow"
    /\ Len(d_stack) = D_STACK_LEN

\* C14: when forth_parse_string has returned true, no compile phase has
\* failed (the peephole pass has walked the whole block) and main's block
\* is complete: it is not empty and its last slot is halt.
C14_CompleteBlock ==
    phase = "ready" =>
        /\ RunPeephole(inlined).complete
        /\ words[main] # <<>>
        /\ words[main][Len(words[main])] = Callback("op_halt")

\* the peephole pass gave up on its 66th open jump, and forth_parse_string
\* returned true with the block cut off at that jump_if
C14_TruncatedBlock ==
    /\ phase = "ready"
    /\ ~RunPeephole(inlined).complete
    /\ Len(words[main]) < Len(inlined)
    /\ words[main][Len(words[main])] = Callback("op_jump_if")

\* C15: once forth_parse_string has returned on a text with a comment, its
\* outcome (success or failure, the diagnostic, and on success main's final
\* block) is the outcome of every text that differs from it only in the
\* bytes between the comment word's separator and the newline or closing
\* paren that ends the comment.
C15_CommentContents ==
    \A f \in Frames, c \in Contents :
        (input = CommentText(f, c) /\ phase \in {"ready", "failed"}) =>
            \A other \in Contents :
                LET o == forth_parse_string(CommentText(f, other))
                IN  /\ o.phase = phase
                    /\ o.error = error
                    /\ phase = "ready" => o.words[main] = words[main]

\* a text whose comment holds a definition and a text whose comment holds
\* an unknown word both compiled to the push of 1 and the push of 2
C15_CommentSkipped ==
    LET f == [pre |-> Times(<<"1">>, 1), open |-> <<"(", " ">>,
              close |-> <<")">>, post |-> <<" ">> \o Join(<<"2">>)]
    IN  /\ input = CommentText(f, Join(<<":", "b", ";">>))
        /\ phase = "ready"
        /\ words[main] = <<Callback("op_number"), Number(Double(1)),
                           Callback("op_number"), Number(Double(2)),
                           Callback("op_halt")>>
        /\ forth_parse_string(CommentText(f, Join(<<"foo">>))).words[main]
               = words[main]

\* the words each fused builtin stands for in peephole_1 and peephole_n
\* (the two fused builtins that multiply by M_PI are left out: the bodies
\* that use M_PI are not evaluated here)
Replaced ==
    (" fma" :> <<"*", "+">>) @@ (" dupdup" :> <<"dup", "dup">>)
    @@ (" -rotswap" :> <<"-rot", "swap">>) @@ (" >=swap" :> <<">=", "swap">>)
    @@ (" mult2" :> <<"2", "*">>) @@ (" pow2" :> <<"2", "**">>)
    @@ (" div2" :> <<"2", "/">>)

\* C16: when a run is about to dispatch a fused builtin and the words it
\* replaces would run on the present stacks without a fault, the fused
\* builtin leaves the same D stack (element count and values) as they do.
C16_FusedAsSequence ==
    (phase = "running" /\ inst < Len(words[main])) =>
        LET opcode == Elem(words[main], inst)
        IN  (opcode.k = "callback" /\ opcode.v \in DOMAIN Replaced) =>
                LET seq   == Eval(Replaced[opcode.v], Machine)
                    fused == ExecBuiltin(opcode.v, Machine)
                IN  seq.status = "running" =>
                        fused.status = "running" /\ fused.d = seq.d

\* the run of "5 dup dup" is about to dispatch the fused builtin with 5 on
\* D: the builtin leaves four elements where dup dup leaves three
C16_DupDupPushesFour ==
    /\ phase = "running"
    /\ d_stack = <<Double(5)>>
    /\ Elem(words[main], inst) = Callback(" dupdup")
    /\ Len(ExecBuiltin(" dupdup", Machine).d) = 4
    /\ Len(Eval(<<"dup", "dup">>, Machine).d) = 3

\* the block of a fold program when its last three instructions are one
\* push of v: the instructions of what stands before them, the push, halt
SinglePush(f, v) ==
    LET before == forth_parse_string(Join(f.pre)).words[main]
    IN  SubSeq(before, 1, Len(before) - 1)
            \o <<Callback("op_number"), Number(v), Callback("op_halt")>>

\* a + b, a - b, a * b or a / b, for the numbers the tokens a and b stand for
Arith(f) ==
    LET a == parse_number(Bytes(f.a))[2]
        b == parse_number(Bytes(f.b))[2]
    IN  CASE f.op = "+" -> DAdd(a, b)
          [] f.op = "-" -> DSub(a, b)
          [] f.op = "*" -> DMul(a, b)
          [] f.op = "/" -> IF IsZero(b) THEN Inf ELSE DDiv(a, b)

C18_DivisionFold ==
    \A f \in FoldTable :
        (f.op = "/" /\ input = Join(FoldProgram(f)) /\ phase = "ready") =>
            words[main] = SinglePush(f, Arith(f))

\* "1 0 /" compiled to the two pushes, the division and halt
C18_DivisionKept ==
    /\ input = Join(<<"1", "0", "/">>)
    /\ phase = "ready"
    /\ words[main] = <<Callback("op_number"), Number(Double(1)),
                       Callback("op_number"), Number(Double(0)),
                       Callback("/"), Callback("op_halt")>>

\* C19: the dispatch of / with a zero on top of D and a dividend below it
\* takes both away and puts positive infinity in their place, whatever the
\* dividend, and the run goes on; "1 0 /" runs to D = [+infinity].
C19_DivisionByZero ==
    /\ [][(/\ phase = "running"
           /\ inst < Len(words[main])
           /\ Elem(words[main], inst) = Callback("/")
           /\ Len(d_stack) >= 2
           /\ IsZero(d_stack[Len(d_stack)])) =>
              /\ phase' = "running"
              /\ inst' = inst + 1
              /\ d_stack' = Append(SubSeq(d_stack, 1, Len(d_stack) - 2),
                                   [n |-> 1, d |-> 0])
         ]_vars_
    /\ []((input = Join(<<"1", "0", "/">>) /\ phase = "halted") =>
              d_stack = <<[n |-> 1, d |-> 0]>>)

\* the division of -5 by a zero read from x has run: D holds +infinity
C19_NegativeByZero ==
    /\ input = Join(<<"0", "5", "-", "x", "/">>)
    /\ phase = "halted"
    /\ vars.x = Double(0)
    /\ d_stack = <<[n |-> 1, d |-> 0]>>

\* the input stubs with the number of values each pops and the number of
\* zeros it pushes, audio pushing audio_zeros of them
Stubs(audio_zeros) ==
    ("mx" :> <<0, 1>>) @@ ("my" :> <<0, 1>>) @@ ("buttons" :> <<0, 1>>)
    @@ ("button" :> <<1, 1>>) @@ ("audio" :> <<1, audio_zeros>>)
    @@ ("sample" :> <<2, 3>>) @@ ("bwsample" :> <<2, 1>>)

\* C20 as it was claimed: audio pops one value and pushes one zero.
C20_Claimed ==
    /\ [][\A s \in DOMAIN Stubs(1) :
            (/\ phase = "running"
             /\ inst < Len(words[main])
             /\ Elem(words[main], inst) = Callback(s)
             /\ Len(d_stack) >= Stubs(1)[s][1]) =>
                /\ phase' = "running"
                /\ d_stack' = SubSeq(d_stack, 1, Len(d_stack) - Stubs(1)[s][1])
                                  \o Rep(<<Double(0)>>, Stubs(1)[s][2])
         ]_vars_
    /\ [](\A s \in DOMAIN Stubs(1) :
              /\ Builtin(s).d_pops = Stubs(1)[s][1]
              /\ Builtin(s).d_pushes = Stubs(1)[s][2])

\* C20: the dispatch of an input stub takes its inputs from D and puts its
\* zeros there: mx, my and buttons take nothing and push one zero, button
\* takes one value and pushes one zero, audio takes one value and pushes
\* nothing, sample takes two and pushes three zeros, bwsample takes two and
\* pushes one zero; these are the pops and pushes declared to the checker.
C20_InputStubs ==
    /\ [][\A s \in DOMAIN Stubs(0) :
            (/\ phase = "running"
             /\ inst < Len(words[main])
             /\ Elem(words[main], inst) = Callback(s)
             /\ Len(d_stack) >= Stubs(0)[s][1]) =>
                /\ phase' = "running"
                /\ d_stack' = SubSeq(d_stack, 1, Len(d_stack) - Stubs(0)[s][1])
                                  \o Rep(<<Double(0)>>, Stubs(0)[s][2])
         ]_vars_
    /\ [](\A s \in DOMAIN Stubs(0) :
              /\ Builtin(s).d_pops = Stubs(0)[s][1]
              /\ Builtin(s).d_pushes = Stubs(0)[s][2])

\* "5 audio" has run to halt with nothing on D
C20_AudioPushesNothing ==
    /\ input = Join(<<"5", "audio">>)
    /\ phase = "halted"
    /\ d_stack = <<>>
    /\ vars.final_d_stack_ptr = 0

-----------------------------------------------------------------------------
(* Memory *)

\* the callback about to be dispatched is the one of builtin name
Dispatching(name) ==
    /\ phase = "running"
    /\ inst < Len(words[main])
    /\ Elem(words[main], inst) = Callback(name)

\* C21: "!" pops the value and then the index and writes memory[index mod
\* CAP] only, "@" pops an index and pushes memory[index mod CAP]; with an
\* index that is not negative every access is inside the array, and
\* "i v ! i @" leaves v on D.
C21_MemoryAccess ==
    /\ [](DOMAIN vars.memory = 0..(CAP - 1))
    /\ [][(/\ Dispatching("!")
           /\ Len(d_stack) >= 2
           /\ d_stack[Len(d_stack) - 1].d > 0
           /\ d_stack[Len(d_stack) - 1].n >= 0) =>
              LET index == d_stack[Len(d_stack) - 1]
                  slot  == (index.n \div index.d) % CAP
              IN  /\ phase' = "running"
                  /\ d_stack' = SubSeq(d_stack, 1, Len(d_stack) - 2)
                  /\ vars'.memory[slot] = d_stack[Len(d_stack)]
                  /\ \A k \in (0..(CAP - 1)) \ {slot} :
                         vars'.memory[k] = vars.memory[k]
         ]_vars_
    /\ [][(/\ Dispatching("@")
           /\ Len(d_stack) >= 1
           /\ d_stack[Len(d_stack)].d > 0
           /\ d_stack[Len(d_stack)].n >= 0) =>
              LET index == d_stack[Len(d_stack)]
                  slot  == (index.n \div index.d) % CAP
              IN  /\ phase' = "running"
                  /\ d_stack' = Append(SubSeq(d_stack, 1, Len(d_stack) - 1),
                                       vars.memory[slot])
                  /\ vars' = vars
         ]_vars_
    /\ [](\A f \in MemTable :
            (/\ input = Join(<<f.i, f.v, "!", f.j, "@">>)
             /\ f.i = f.j
             /\ phase = "halted") =>
                d_stack = <<parse_number(Bytes(f.v))[2]>>)

\* 7 was stored at index 17 and fetched from index 1: the store went to
\* slot 17 mod 16
C21_WrappedStore ==
    /\ input = Join(<<"17", "7", "!", "1", "@">>)
    /\ phase = "halted"
    /\ vars.memory = [NoVars.memory EXCEPT ![1] = Double(7)]
    /\ d_stack = <<Double(7)>>

-----------------------------------------------------------------------------
(* Runs of a compiled context *)

-----------------------------------------------------------------------------
(* The depth of inlining *)

\* C23: the inliner expands every call while the chain of user words below
\* main is at most 99 deep; a chain of 100, and a word that calls itself
\* and is called from main, fails the parse with the recursion-limit error
\* and leaves main's block as it was, the halt appended; a word that calls
\* itself and is never called does not fail the parse.
C23_InliningDepth ==
    /\ [][(phase = "parse" /\ AtEnd /\ defining_word = main) =>
            /\ error' = "Recursion limit reached while inlining" =>
                   /\ phase' = "failed"
                   /\ Count(words[main], "op_eval_code") > 0
                   /\ words' = [words EXCEPT
                                  ![main] = Append(@, Callback("op_halt"))]
            /\ phase' = "ready" => Count(inlined', "op_eval_code") = 0
         ]_vars_
    /\ [](\A n \in {2, RECURSION_LIMIT - 1} :
            (Len(input) = 14 * n + 4 /\ input = ChainText(n)) =>
            /\ phase # "failed"
            /\ Compiled => inlined = <<Callback("op_number"), Number(Double(1)),
                                       Callback("op_halt")>>)
    /\ [](( \/ /\ Len(input) = 14 * RECURSION_LIMIT + 4
                /\ input = ChainText(RECURSION_LIMIT)
             \/ input = Join(<<":", "a", "a", ";", "a">>)
             \/ input = Join(<<":", "a", "1", "a", ";", ":", "b", "a", ";",
                               "1", "if", "b", "then">>)) =>
            /\ phase \in {"parse", "failed"}
            /\ phase = "failed" =>
                   error = "Recursion limit reached while inlining")
    /\ [](input = Join(<<":", "a", "a", ";">>) =>
            /\ phase # "failed"
            /\ Compiled => words[main] = <<Callback("op_halt")>>)

\* the chain of 100 words was refused, main's call still in its block
C23_ChainRefused ==
    /\ phase = "failed"
    /\ Len(input) = 14 * RECURSION_LIMIT + 4
    /\ input = ChainText(RECURSION_LIMIT)
    /\ error = "Recursion limit reached while inlining"
    /\ Len(words[main]) = 3
    /\ IsCallback(words[main][1], "op_eval_code")

-----------------------------------------------------------------------------
(* The example 5 dup dup *)

\* C24: the source "5 dup dup" compiles to the push of 5, one fused dupdup
\* and the halt, and its run halts with D = [5, 5, 5, 5].
C24_FiveDupDup ==
    input = Join(<<"5", "dup", "dup">>) =>
        /\ phase \in {"parse", "ready", "running", "halted"}
        /\ Compiled =>
               words[main] = <<Callback("op_number"), Number(Double(5)),
                               Callback(" dupdup"), Callback("op_halt")>>
        /\ phase = "halted" =>
               d_stack = <<Double(5), Double(5), Double(5), Double(5)>>

\* the run of "5 dup dup" has halted after three dispatches, the fused
\* builtin among them
C24_FusedRan ==
    /\ input = Join(<<"5", "dup", "dup">>)
    /\ phase = "halted"
    /\ inst = 3
    /\ Len(d_stack) = 4
    /\ Count(words[main], " dupdup") = 1

-----------------------------------------------------------------------------
(* C25: peephole and the barriers jump_if, jump and nop *)

\* C25: the peephole pass never fuses or folds across a jump_if, a jump or a
\* nop: the optimized block of main keeps the barriers of the inlined block in
\* order, no incoming builtin is rewritten into a block that ends in a
\* barrier, and every branch of the optimized block has as many barriers and
\* halts from its target on as the same branch of the inlined block.
C25_Barriers ==
    (Compiled /\ RunPeephole(inlined).complete) =>
        LET opt        == words[main]
            IsB(b, i)  == Elem(b, i).v \in {"op_jump_if", "op_jump", "op_nop"}
            IsBr(b, i) == Elem(b, i).v \in {"op_jump_if", "op_jump"}
            IsEnd(b, i) == IsB(b, i) \/ Elem(b, i).v = "op_halt"
            SI         == OpcodeSlots(inlined, 0)
            SO         == OpcodeSlots(opt, 0)
            BI         == {i \in SI : IsB(inlined, i)}
            BO         == {o \in SO : IsB(opt, o)}
            Rank(S, i) == Cardinality({j \in S : j < i})
            Left(b, S, t) == Cardinality({j \in S : j >= t /\ IsEnd(b, j)})
            End(o)     == IF IsBr(opt, o) THEN o + 2 ELSE o + 1
            names      == {opt[j].v : j \in {q \in DOMAIN opt :
                                               opt[q].k = "callback"}}
        IN  /\ Cardinality(BI) = Cardinality(BO)
            /\ \A i \in BI, o \in BO :
                   Rank(BI, i) = Rank(BO, o) =>
                       /\ Elem(inlined, i) = Elem(opt, o)
                       /\ IsBr(opt, o) =>
                              Left(inlined, SI, i + Elem(inlined, i + 1).v)
                                  = Left(opt, SO, o + Elem(opt, o + 1).v)
            /\ \A o \in BO, name \in names :
                   ~TryPeephole(SubSeq(opt, 1, End(o)), Callback(name))[1]

\* "x dup dup if 1 else 2 then": the jump_if of the inlined block leads past
\* the end of the block, the one of the optimized block leads to the nop
C25_TargetMoved ==
    /\ input = Join(<<"x", "dup", "dup", "if", "1", "else", "2", "then">>)
    /\ phase = "ready"
    /\ IsCallback(Elem(inlined, 3), "op_jump_if")
    /\ 3 + Elem(inlined, 4).v = Len(inlined)
    /\ IsCallback(Elem(words[main], 2), "op_jump_if")
    /\ IsCallback(Elem(words[main], 2 + Elem(words[main], 3).v), "op_nop")

-----------------------------------------------------------------------------
(* C26: the block left by the driver and one more peephole pass *)

\* C26: after the one or two peephole passes of forth_parse_string, one more
\* pass over the block of main performs no rewrite.
C26_Fixpoint ==
    (Compiled /\ RunPeephole(inlined).complete) => ~peephole(words[main]).ret

\* "x 5 1 2 * *": the two passes leave x, push 5, mult2 and a third pass
\* would still fold the mult2 into the push
C26_ThirdPass ==
    /\ input = Join(<<"x", "5", "1", "2", "*", "*">>)
    /\ phase = "ready"
    /\ RunPeephole(inlined).passes = 2
    /\ words[main] = <<Callback("x"), Callback("op_number"), Number(Double(5)),
                       Callback(" mult2"), Callback("op_halt")>>
    /\ peephole(words[main]).ret
    /\ peephole(words[main]).code
           = <<Callback("x"), Callback("op_number"), Number(Double(10)),
               Callback("op_halt")>>

-----------------------------------------------------------------------------
(* C27: the byte after the terminator of a comment *)

\* C27: after a comment the next token starts with the byte that follows the
\* terminator: a text with a comment is accepted or refused like the text
\* without the comment and, when accepted, leaves the same block of main;
\* so does a line comment followed directly by "1 2 +".
C27_ResumeAfterComment ==
    /\ \A f \in Frames, c \in Contents :
           (input = CommentText(f, c) /\ phase \in {"ready", "failed"}) =>
               LET o == forth_parse_string(f.pre \o f.post)
               IN  /\ o.phase = phase
                   /\ phase = "ready" => o.words[main] = words[main]
    /\ (/\ input \in {Join(<<"\\", "5">>) \o <<"\n">> \o Join(<<"1", "2", "+">>),
                      Join(<<"(", "5", ")">>) \o Join(<<"1", "2", "+">>)}
        /\ phase \in {"ready", "failed"}) =>
           LET o == forth_parse_string(Join(<<"1", "2", "+">>))
           IN  /\ o.phase = phase
               /\ o.words[main] = words[main]

\* the line comment followed directly by "1 2 +" is refused, the 1 being
\* lost, while "1 2 +" alone is accepted
C27_TokenLost ==
    /\ input = Join(<<"\\", "5">>) \o <<"\n">> \o Join(<<"1", "2", "+">>)
    /\ phase = "failed"
    /\ code = Len(input)
    /\ words[main] = <<Callback("op_number"), Number(Double(2)),
                       Callback("+"), Callback("op_halt")>>
    /\ forth_parse_string(Join(<<"1", "2", "+">>)).phase = "ready"

-----------------------------------------------------------------------------
(* C28: the indices on the compile-time jump stack *)

\* C28: while a text is parsed, every index on ctx->j_stack is the index of
\* the offset slot of a jump_if or a jump in the block of the word being
\* defined, and an else or a then patches the zero placeholder at the index
\* it pops.
C28_Placeholders ==
    /\ []((phase = "parse" /\ defining_word # NULL) =>
            \A k \in DOMAIN j_stack :
                LET block == words[defining_word]
                    idx   == j_stack[k]
                IN  /\ idx >= 1
                    /\ idx < Len(block)
                    /\ Elem(block, idx).k = "pc"
                    /\ \/ IsCallback(Elem(block, idx - 1), "op_jump_if")
                       \/ IsCallback(Elem(block, idx - 1), "op_jump"))
    /\ [][(/\ Parsing
           /\ defining_word # NULL
           /\ Token \in {"else", "then"}
           /\ j_stack # <<>>) =>
              LET idx == j_stack[Len(j_stack)]
              IN  /\ phase' = "parse"
                  /\ idx < Len(words[defining_word])
                  /\ Elem(words[defining_word], idx) = Pc(0)
                  /\ Elem(words'[defining_word], idx).k = "pc"
                  /\ Elem(words'[defining_word], idx).v > 0
       ]_vars_

\* "1 if : a 5 5 then ;" is accepted: the then of a patched the immediate of
\* the second push of a, and the jump_if of main kept its zero placeholder
C28_ForeignPatch ==
    /\ input = Join(<<"1", "if", ":", "a", "5", "5", "then", ";">>)
    /\ phase = "ready"
    /\ words["a"] = <<Callback("op_number"), Number(Double(5)),
                      Callback("op_number"), Pc(5), Callback("op_nop")>>
    /\ Elem(words[main], 3) = Pc(0)

-----------------------------------------------------------------------------
(* C29: the jump stack at the end of an accepted text *)

\* C29: when forth_parse_string has succeeded, ctx->j_stack is empty and no
\* jump_if or jump of main's block holds the zero placeholder.
C29_AllClosed ==
    Compiled =>
        /\ j_stack = <<>>
        /\ \A i \in OpcodeSlots(words[main], 0) :
               (IsCallback(Elem(words[main], i), "op_jump_if")
                   \/ IsCallback(Elem(words[main], i), "op_jump"))
               => /\ i + 1 < Len(words[main])
                  /\ Elem(words[main], i + 1) # Pc(0)

\* "1 if" is accepted with its index left on the jump stack and the zero
\* placeholder in the block
C29_OpenIfAccepted ==
    /\ input = Join(<<"1", "if">>)
    /\ phase = "ready"
    /\ j_stack = <<3>>
    /\ words[main] = <<Callback("op_number"), Number(Double(1)),
                       Callback("op_jump_if"), Pc(0), Callback("op_halt")>>

-----------------------------------------------------------------------------
(* C30: the local jump stacks of inline_calls_code and peephole *)

\* C30: at the end of every text neither inline_calls_code nor a peephole
\* pass stores beyond the last slot of its 64-entry jump_stack: a push met
\* with 64 entries held is refused.
C30_LocalJumpStacks ==
    [][(phase = "parse" /\ AtEnd /\ ~is_inside_word_def(defining_word)) =>
           LET W   == [words EXCEPT ![main] = EMIT(@, Callback("op_halt"))]
               inl == inline_calls(W)
           IN  /\ inl.status = "ok"
               /\ inl.ret => RunPeephole(inl.code).status = "ok"
               /\ phase' # "ub"
      ]_vars_

\* 63 ifs open in main around a word with three nested ifs: the peephole
\* pass stored its 65th index one past the end of jump_stack
C30_PastLastSlot ==
    /\ phase = "ub"
    /\ Count(inlined, "op_jump_if") = J_STACK_LEN + 3
    /\ peephole(inlined).status = "ub"
    /\ ~peephole(inlined).complete

-----------------------------------------------------------------------------
(* C31: declared and actual stack effects of the runtime builtins *)

\* C31: every dispatch of a runtime builtin, private ones included, moves
\* the D and the R stack by its declared pushes minus its declared pops,
\* leaves what lies below its declared pops as it was, and does not
\* underflow when its declared pops are there; and in the run of a block
\* without jump_if and jump the depths of D and R before every instruction
\* are the ones check_stack_effects counts for the instructions before it.
C31_StackEffects ==
    /\ []((/\ Count(words[main], "op_jump_if") = 0
           /\ Count(words[main], "op_jump") = 0
           /\ \/ phase \in {"running", "halted"}
              \/ phase = "unmodelled" /\ error \in Unvalued) =>
             LET sim == Loop("items", SubSeq(words[main], 1, inst),
                             [i |-> 0, d |-> 0, r |-> 0, top |-> 0,
                              done |-> FALSE], 0)
             IN  Len(d_stack) = sim.d /\ Len(r_stack) = sim.r)
    /\ [][(/\ phase = "running"
           /\ inst < Len(words[main])
           /\ Elem(words[main], inst).k = "callback"
           /\ Elem(words[main], inst).v \in BuiltinNames) =>
              LET b == Builtin(Elem(words[main], inst).v)
              IN  /\ (Len(d_stack) >= b.d_pops /\ Len(r_stack) >= b.r_pops) =>
                         error' \notin {"D stack underflow",
                                        "R stack underflow"}
                  /\ (\/ phase' = "running"
                      \/ phase' = "unmodelled" /\ b.name \in Unvalued) =>
                         /\ Len(d_stack') - Len(d_stack)
                                = b.d_pushes - b.d_pops
                         /\ Len(r_stack') - Len(r_stack)
                                = b.r_pushes - b.r_pops
                         /\ SubSeq(d_stack', 1, Len(d_stack) - b.d_pops)
                                = SubSeq(d_stack, 1, Len(d_stack) - b.d_pops)
                         /\ SubSeq(r_stack', 1, Len(r_stack) - b.r_pops)
                                = SubSeq(r_stack, 1, Len(r_stack) - b.r_pops)
       ]_vars_

\* "x x x x z+" ran with exactly the four values z+ pops and left two
C31_DeepestPop ==
    /\ input = Join(<<"x", "x", "x", "x", "z+">>)
    /\ phase = "halted"
    /\ Len(d_stack) = 2
    /\ vars.final_d_stack_ptr = 2

=============================================================================
